---- MODULE Spec2Model ----
(***************************************************************************)
(* A state-machine model of app.py: the in-memory session store, product   *)
(* ingestion, the three classification entry points (synchronous request,  *)
(* background task, push stream) and the Smart Collections synchronisation *)
(* against the Shopify sink.                                               *)
(*                                                                         *)
(* The specifications share the variables:                                 *)
(*   Spec         the pipeline front: fetch-products, classification and   *)
(*                the submission of a sync worker, over one session;       *)
(*   SpecSync     sync workers running against the sink;                   *)
(*   SpecGui      update_shopify of the desktop variant (test.py);         *)
(*   SpecProgress the progress a background classification reports;        *)
(*   SpecTasks    the task registry and the worker threads, under weak     *)
(*                fairness of every started thread;                        *)
(*   SpecBackground  the progress one background task reports;             *)
(*   SpecStore    the session store, its sweep and the two locks;          *)
(*   SpecTags     the tag filter of fetch_products on one product;         *)
(*   SpecIngest   the pagination loop of fetch_products;                   *)
(*   SpecDedup    the deduplication pass on given buckets;                 *)
(*   SpecCalls    one call of a sink function, with the requests it sends  *)
(*                and the time it sleeps;                                  *)
(*   SpecStream   one push stream, with the events it emits;               *)
(*   SpecFetch    one fetch-products request against the session store;    *)
(*   SpecRerun    a run of the pipeline followed by the same fetch;         *)
(*   SpecPoll     one status poll beside the worker of its task.            *)
(***************************************************************************)
EXTENDS Integers, Sequences, FiniteSets, TLC

\* ------------------------------------------------------------------ bounds

\* Longest product list a fetch returns in the model.
MaxProducts == 2

\* Most requests the sink answers with a failure while the runs of the model
\* last.
MaxFaults == 3

\* ------------------------------------------------------- program constants

\* BATCH_SIZE of the background and stream classification loops.
BATCH_SIZE == 500

\* ---------------------------------------------------------------- helpers

Range(s) == {s[i] : i \in 1..Len(s)}

Min(a, b) == IF a <= b THEN a ELSE b

\* [1, 2, ..., n]
Ascending(n) == [i \in 1..n |-> i]

RECURSIVE Concat(_)
\* The concatenation of a sequence of sequences.
Concat(ss) == IF ss = <<>> THEN <<>> ELSE Head(ss) \o Concat(Tail(ss))

RECURSIVE SumLen(_)
\* sum(len(ids) for ids in d.values())
SumLen(d) == IF d = <<>> THEN 0 ELSE Len(Head(d).ids) + SumLen(Tail(d))

\* ----------------------------------------------------------- input domains

\* What a successful fetch can store: the products of the store that carry the
\* requested tag, in page order.  Tag "x" matches products 1..n, another tag
\* matches one other product, and a tag may match nothing.
FetchResults ==
    {<<>>, <<MaxProducts + 1>>} \cup {Ascending(n) : n \in 1..MaxProducts}

\* user_collections of a request body (non-empty lists; a name may repeat and
\* two names may differ in letter case only).
UserCollections == {<<"a">>, <<"b", "a", "b">>, <<"a", "A">>}

\* Flattened "Parent > Subcategory" lists of a parsed AI hierarchy; {} and a
\* parent with no subcategory flatten to the empty list.
GeneratedCollections == {<<>>, <<"P > x", "Q > y">>}

\* The default structure of classify_products (27 names in the source, two
\* representatives here).
DefaultCollections ==
    <<"Traffic Cones > 750mm Cones", "Water Tanks > Bunded Tanks">>

\* A label that belongs to no taxonomy of the model.
UnknownLabel == "Other"

\* Classifier replies: the text of the answer, bare or wrapped in quotes, or
\* an exception (timeout, API error) raised by the call.
Replies(names) ==
    [kind : {"text"}, body : names \cup {UnknownLabel}, quoted : BOOLEAN]
        \cup {[kind |-> "exception", body |-> "", quoted |-> FALSE]}

\* resp.choices[0].message.content.strip().strip('"\''): the wrapping is
\* dropped, the text between is kept as is (letter case included).
StripLabel(reply) == reply.body

\* ------------------------------------------------- ordered dicts of buckets
\* A dict name -> list of indices is a sequence of [name, ids] records in
\* insertion order.

RECURSIVE UniqueKeys(_, _)
UniqueKeys(names, acc) ==
    IF names = <<>> THEN acc
    ELSE UniqueKeys(Tail(names),
                    IF Head(names) \in Range(acc) THEN acc
                    ELSE Append(acc, Head(names)))

\* collections_dict = {name: [] for name in suggested_collections}
DictInit(names) ==
    LET keys == UniqueKeys(names, <<>>)
    IN  [i \in 1..Len(keys) |-> [name |-> keys[i], ids |-> <<>>]]

DictKeys(d) == {d[i].name : i \in 1..Len(d)}

DictGet(d, n) == d[CHOOSE i \in 1..Len(d) : d[i].name = n].ids

\* collections_dict[name].append(idx)
DictAppend(d, n, idx) ==
    [i \in 1..Len(d) |->
        IF d[i].name = n THEN [d[i] EXCEPT !.ids = Append(@, idx)] ELSE d[i]]

\* All indices held by the buckets of d.
DictIndices(d) == UNION {Range(d[i].ids) : i \in 1..Len(d)}

\* A mutant of FallbackName: the first bucket whatever its size.
FallbackName_First(d) == d[1].name

\* max(collections_dict.items(), key=lambda x: len(x[1]) if x[1] else 0)[0]:
\* the first bucket of maximal size in iteration order (d is not empty).
FallbackName(d) ==
    LET best == CHOOSE i \in 1..Len(d) :
                    /\ \A j \in 1..Len(d) : Len(d[j].ids) <= Len(d[i].ids)
                    /\ \A j \in 1..(i - 1) : Len(d[j].ids) < Len(d[i].ids)
    IN  d[best].name

\* A classifier's valid answer: the index goes to the named bucket.
AssignLabel(d, n, idx) == DictAppend(d, n, idx)

\* A mutant of AssignFallback: the index is left for a later pass.
AssignFallback_LeaveUnassigned(d, idx) == d

\* An invalid answer or a failed call: the index goes to the fallback bucket.
AssignFallback(d, idx) == DictAppend(d, FallbackName(d), idx)

\* A mutant of RemoveEmpty: every bucket is kept.
RemoveEmpty_KeepAll(d) == d

\* {name: ids for name, ids in collections_dict.items() if ids}
RemoveEmpty(d) == SelectSeq(d, LAMBDA e : e.ids # <<>>)

RECURSIVE DedupIds(_, _)
\* One bucket's unique_indices given the indices seen so far.
DedupIds(ids, seen) ==
    IF ids = <<>> THEN <<>>
    ELSE IF Head(ids) \in seen THEN DedupIds(Tail(ids), seen)
    ELSE <<Head(ids)>> \o DedupIds(Tail(ids), seen \cup {Head(ids)})

RECURSIVE DedupFrom(_, _)
DedupFrom(d, seen) ==
    IF d = <<>> THEN <<>>
    ELSE LET unique == DedupIds(Head(d).ids, seen)
             rest   == DedupFrom(Tail(d), seen \cup Range(unique))
         IN  IF unique # <<>>
             THEN <<[name |-> Head(d).name, ids |-> unique]>> \o rest
             ELSE rest

\* A mutant of Deduplicate: the index is added to seen_products before it is
\* looked up, so every index counts as a duplicate.
Deduplicate_AddBeforeLookup(d) == DedupFrom(d, DictIndices(d))

\* A mutant of Deduplicate: every bucket is deduplicated on its own.
Deduplicate_WithinBucket(d) ==
    [i \in 1..Len(d) |-> [name |-> d[i].name, ids |-> DedupIds(d[i].ids, {})]]

\* The deduplication pass: first bucket in iteration order wins, buckets left
\* empty are dropped.
Deduplicate(d) == DedupFrom(d, {})

\* The number of index occurrences the deduplication pass drops.
DuplicatesRemoved(d) == SumLen(d) - SumLen(Deduplicate(d))

\* ----------------------------------------------------------------- state

VARIABLES
    \* data_store[sid] of the one session of the model
    store_shop_url,        \* 'shop_url' ("" when absent)
    store_products,        \* 'products' (<<>> when absent)
    store_classified,      \* 'classified_collections' (<<>> when absent)
    store_classified_from, \* history: the product list that was classified
    \* fetch_products in flight
    f_pc,
    \* a classification run (request handler, worker thread or stream)
    c_pc, c_mode, c_products, suggested_collections, collections_dict,
    product_to_collection, c_todo, c_last, c_outcome, c_result,
    \* the arguments update_shopify_start hands to its worker thread
    w_started, w_products, w_collections, w_from,
    \* sync runs (worker threads and streams), one record per run
    worker,
    \* the sink: the titles of its smart collections in creation order (a
    \* collection's id is its position) and each product's product_type
    sink_collections, sink_product_type,
    \* history: product_type of every product when the first run ended
    types_after_first,
    \* the requests the sink has answered with a failure so far
    faults,
    \* the desktop variant (test.py): the state of update_shopify, and the
    \* sink's custom collections (titles, the id a position) and collects
    \* (pairs of a product id and a collection id)
    gui, custom_collections, collects,
    \* the task registry (classification_tasks) and the worker thread of each
    \* task id
    classification_tasks, task_thread,
    \* history: the last answer of a status query, and the task, the writer
    \* and the record before it of the last update_task_progress
    status_reply, last_update,
    \* the session store: data_store[sid] (whether the session is there and
    \* its created_at), the clock in seconds, the holder of each lock, the
    \* call each thread is in, and as history the sessions the last sweep
    \* deleted
    data_store, clock, store_lock, tasks_lock, running, swept,
    \* fetch_products: a run of the pagination loop, and one product under
    \* the tag filter
    ingest, tagcheck,
    \* one run of the deduplication pass over given buckets
    dedup,
    \* one call of a sink function: its place in the attempt loop and, as
    \* history, the requests it has sent and the sleeps it has made
    sink_call,
    \* one push stream: the place of its generator and, as history, the
    \* types of the events it has emitted
    stream,
    \* one fetch-products request: its body, its place in the handler, the
    \* session's stored values and, as history, those values when the
    \* request came in
    fetch,
    \* one run of the pipeline and the fetch after it: the tags of the
    \* products of the sink, the tag asked for, what the two fetches returned
    rerun,
    \* one status poll beside the worker of its task: the task's dict, the
    \* calls of update_task_progress made so far, the place of the handler
    \* and the fields it has read
    poll

sessVars == <<store_shop_url, store_products, store_classified,
              store_classified_from>>
fetchVars == <<f_pc>>
clsVars == <<c_pc, c_mode, c_products, suggested_collections,
             collections_dict, product_to_collection, c_todo, c_last,
             c_outcome, c_result>>
submitVars == <<w_started, w_products, w_collections, w_from>>

syncVars == <<worker, sink_collections, sink_product_type, types_after_first,
              faults>>

guiVars == <<gui, custom_collections, collects>>

taskVars == <<classification_tasks, task_thread, status_reply, last_update>>

storeVars == <<data_store, clock, store_lock, tasks_lock, running, swept>>

ingestVars == <<ingest, tagcheck>>

passVars == <<dedup>>

detailVars == <<sink_call, stream, fetch, rerun, poll>>

vars == <<sessVars, fetchVars, clsVars, submitVars, syncVars, guiVars,
          taskVars, storeVars, ingestVars, passVars,
          detailVars>>

NoStep == [idx |-> 0, kind |-> "none"]

NoResult ==
    [collections |-> <<>>, total_collections |-> 0, total_products |-> 0]

\* The two sync runs of SpecSync.
Workers == {1, 2}

\* A run that was not submitted.
IdleWorker ==
    [pc |-> "idle", mode |-> "none", products |-> <<>>, collections |-> <<>>,
     clean |-> <<>>, plan |-> <<>>, total_products |-> 0,
     total_collections |-> 0, duplicates_removed |-> 0,
     item |-> 0, attempt |-> 0, phase |-> "none", success_count |-> 0,
     outcome |-> "none", message |-> "none", permission_flag |-> FALSE,
     \* history of the run
     preflight |-> "none", wrote |-> FALSE, created |-> FALSE,
     permission_seen |-> FALSE, all_ok |-> TRUE, collections_ok |-> 0,
     updates_ok |-> 0, after_first |-> FALSE,
     \* the call of a sink function under way: what it returns, and as
     \* history the 429 answers it received and whether one of its requests
     \* followed a 429 sooner than the sink had asked
     result |-> "none", n429 |-> 0, short_wait |-> FALSE,
     \* history: the body of the PUT the sink answered with success
     put |-> [id |-> 0, tags |-> "", product_type |-> ""]]

\* The products of the sink's store.
ProductIds == 1..(MaxProducts + 1)

\* A product_type no collection name equals.
OtherType == ""

InitFront ==
    /\ store_shop_url = ""
    /\ store_products = <<>>
    /\ store_classified = <<>>
    /\ store_classified_from = <<>>
    /\ f_pc = "idle"
    /\ c_pc = "idle"
    /\ c_mode = "none"
    /\ c_products = <<>>
    /\ suggested_collections = <<>>
    /\ collections_dict = <<>>
    /\ product_to_collection = <<>>
    /\ c_todo = <<>>
    /\ c_last = NoStep
    /\ c_outcome = "none"
    /\ c_result = NoResult
    /\ w_started = FALSE
    /\ w_products = <<>>
    /\ w_collections = <<>>
    /\ w_from = <<>>

\* No sync run has been asked for.
SyncIdle ==
    /\ worker = [w \in Workers |-> IdleWorker]
    /\ sink_collections = <<>>
    /\ sink_product_type = [p \in ProductIds |-> OtherType]
    /\ types_after_first = <<>>
    /\ faults = 0

\* update_shopify of the desktop variant before it is called.
IdleGui ==
    [pc |-> "idle", products |-> <<>>, classified_collections |-> <<>>,
     bucket |-> 0, position |-> 0, collection_id |-> 0, success_count |-> 0,
     status |-> "none",
     \* history: the answer and the result of every add_product_to_collection,
     \* and the buckets skipped for want of a collection
     calls |-> <<>>, skipped |-> {}]

\* The desktop variant is not in use.
GuiIdle ==
    /\ gui = IdleGui
    /\ custom_collections = <<>>
    /\ collects = {}

\* The task ids of the model (uuid4 values): the one classify_start draws
\* and the one update_shopify_start draws.
TaskIds == {"t1", "t2"}

\* The record of a task id that is not in classification_tasks.
NoTask == [status |-> "none", progress |-> 0]

\* The thread of a task id nobody has been given.
NoThread ==
    [pc |-> "none", kind |-> "none", total |-> 0, batch_num |-> 0,
     idx |-> 0, empty |-> FALSE, total_collections |-> 0, item |-> 0,
     outside |-> 0, attempt |-> 0, returned |-> "none"]

NoUpdate == [task_id |-> "none", by |-> "none", before |-> NoTask]

NoReply == "none"

\* No task has been submitted.
TasksIdle ==
    /\ classification_tasks = [t \in TaskIds |-> NoTask]
    /\ task_thread = [t \in TaskIds |-> NoThread]
    /\ status_reply = NoReply
    /\ last_update = NoUpdate

\* The session ids of the store and the threads of the process.
SessionIds == {"s1", "s2"}
Threads == {"handler", "worker"}

\* A session id the store does not hold.
NoSession == [present |-> FALSE, created_at |-> 0]

\* A thread between two calls.
NoCall == [todo |-> <<>>, sid |-> "s1", swept |-> FALSE]

\* An empty store, both locks free.
StoreIdle ==
    /\ data_store = [sid \in SessionIds |-> NoSession]
    /\ clock = 0
    /\ store_lock = "free"
    /\ tasks_lock = "free"
    /\ running = [p \in Threads |-> NoCall]
    /\ swept = {}

\* A product of the source with no tags key.
NoTags == [has |-> FALSE, text |-> <<>>]

\* No product is under the tag filter.
NoTagCheck ==
    [pc |-> "idle", variant |-> "none", tags |-> NoTags, input |-> <<>>,
     included |-> FALSE]

TagsIdle == tagcheck = NoTagCheck

\* No ingestion is under way.
NoIngest ==
    [pc |-> "idle", source |-> [pages |-> 0, last_next |-> FALSE,
                                endless |-> FALSE, first |-> NoTags,
                                second |-> NoTags],
     tag |-> <<>>, cursor |-> 0, page_count |-> 0, all_products |-> <<>>,
     \* history: the requests sent, and whether each asked for the page after
     \* the one asked for before
     requests |-> 0, in_order |-> TRUE,
     outcome |-> "none"]

IngestIdle == ingest = NoIngest

\* No deduplication pass is under way.
NoPass ==
    [pc |-> "idle", variant |-> "none", input |-> <<>>, clean |-> <<>>,
     duplicates_removed |-> 0]

PassIdle == dedup = NoPass

\* No sink function has been called.
NoSinkCall ==
    [fn |-> "none", attempt |-> 0, phase |-> "none", value |-> "none",
     trace |-> <<>>]

\* No push stream has been opened.
NoStream ==
    [kind |-> "none", pc |-> "none", total |-> 0, total_collections |-> 0,
     batch_num |-> 0, item |-> 0, empty |-> FALSE, events |-> <<>>]

\* A session that holds nothing.
EmptySession ==
    [shop_url |-> "", access_token |-> "", products |-> <<>>,
     classified_collections |-> <<>>]

\* No fetch-products request has come in.
NoFetch ==
    [pc |-> "none", body |-> [shop_url |-> "", access_token |-> "",
                              tag |-> ""],
     page_count |-> 0, outcome |-> "none", session |-> EmptySession,
     before |-> EmptySession]

\* No run of the pipeline is followed.
NoRerun ==
    [pc |-> "none", tag |-> <<>>, sink_tags |-> <<>>, products |-> <<>>,
     plan |-> <<>>, item |-> 0, refetched |-> <<>>]

\* The dict of a task, and the answer of a poll, before any field is set.
NoFields ==
    [status |-> "none", progress |-> 0, message |-> "none", data |-> "none"]

\* No status poll is followed.
NoPoll ==
    [pc |-> "none", kind |-> "none", calls |-> 0, present |-> FALSE,
     task |-> NoFields, reply |-> NoFields]

DetailIdle ==
    /\ poll = NoPoll
    /\ sink_call = NoSinkCall
    /\ stream = NoStream
    /\ fetch = NoFetch
    /\ rerun = NoRerun
    /\ poll = NoPoll


Init ==
    /\ InitFront
    /\ SyncIdle
    /\ GuiIdle
    /\ TasksIdle
    /\ StoreIdle
    /\ IngestIdle
    /\ TagsIdle
    /\ PassIdle
    /\ DetailIdle

\* Thread(target=..., args=...).start() follows the reads of the handler at
\* once: no other step of the model falls between them.
NoThreadStarting == ~w_started

\* ------------------------------------------------------- fetch-products

\* The shops a request may name.
Shops == {"shop1"}

\* fetch_products up to its first page request: the fields are present, the
\* credentials are stored.
FetchBegin ==
    /\ f_pc = "idle"
    /\ NoThreadStarting
    /\ \E shop \in Shops : store_shop_url' = shop
    /\ f_pc' = "paging"
    /\ UNCHANGED <<store_products, store_classified, store_classified_from,
                   clsVars, submitVars, syncVars, guiVars, storeVars, ingestVars, passVars, detailVars, taskVars>>

\* Pagination ended: store_data('products', all_products).
FetchStore ==
    /\ f_pc = "paging"
    /\ NoThreadStarting
    /\ \E found \in FetchResults : store_products' = found
    /\ f_pc' = "idle"
    /\ UNCHANGED <<store_shop_url, store_classified, store_classified_from,
                   clsVars, submitVars, syncVars, guiVars, storeVars, ingestVars, passVars, detailVars, taskVars>>

\* A page answered non-200, timed out or the connection failed: the handler
\* returns an error and stores no product list.
FetchFail ==
    /\ f_pc = "paging"
    /\ NoThreadStarting
    /\ f_pc' = "idle"
    /\ UNCHANGED <<sessVars, clsVars, submitVars, syncVars, guiVars, storeVars, ingestVars, passVars, detailVars, taskVars>>

\* --------------------------------------------------------- classification

\* A mutant of BatchEnd: the end of the batch taken as exclusive.
BatchEnd_Exclusive(batch_num, total) ==
    Min((batch_num + 1) * BATCH_SIZE, total) - 1

BatchStart(batch_num) == batch_num * BATCH_SIZE + 1

BatchEnd(batch_num, total) == Min((batch_num + 1) * BATCH_SIZE, total)

TotalBatches(total) == (total + BATCH_SIZE - 1) \div BATCH_SIZE

\* The indices in the order the loops of a mode visit them.
VisitOrder(mode, total) ==
    IF mode = "sync" THEN Ascending(total)
    ELSE Concat([b \in 1..TotalBatches(total) |->
                    [k \in 1..(BatchEnd(b - 1, total) - BatchStart(b - 1) + 1)
                        |-> BatchStart(b - 1) + k - 1]])

RECURSIVE AppendAll(_, _, _)
AppendAll(d, n, ids) ==
    IF ids = <<>> THEN d
    ELSE AppendAll(DictAppend(d, n, Head(ids)), n, Tail(ids))

\* Step 3 of classify_products: indices missing from product_to_collection go
\* to the most populated bucket.
AssignMissing(d, p2c, total) ==
    LET missing == SelectSeq(Ascending(total), LAMBDA i : i \notin DOMAIN p2c)
    IN  IF missing = <<>> THEN d ELSE AppendAll(d, FallbackName(d), missing)

RECURSIVE Insert(_, _)
Insert(x, sorted) ==
    IF sorted = <<>> THEN <<x>>
    ELSE IF x <= Head(sorted) THEN <<x>> \o sorted
    ELSE <<Head(sorted)>> \o Insert(x, Tail(sorted))

RECURSIVE Sorted(_)
Sorted(ids) == IF ids = <<>> THEN <<>> ELSE Insert(Head(ids), Sorted(Tail(ids)))

\* formatted_collections: per bucket the indices in range, ascending.
Formatted(d, total) ==
    [i \in 1..Len(d) |->
        [name |-> d[i].name,
         ids  |-> SelectSeq(Sorted(d[i].ids), LAMBDA x : 1 <= x /\ x <= total)]]

Modes == {"sync", "background", "stream"}

ClassifyEnds(outcome) ==
    /\ c_pc' = "done"
    /\ c_outcome' = outcome

\* classify_products, classify_start with the first lines of its worker, or
\* classify_products_stream, up to the choice of the collections.
ClassifyBegin ==
    /\ c_pc = "idle"
    /\ NoThreadStarting
    /\ store_products # <<>>
    /\ \E mode \in Modes, api_key \in BOOLEAN :
          /\ c_mode' = mode
          /\ c_products' = store_products
          /\ IF api_key
             THEN c_pc' = "collections" /\ c_outcome' = "none"
             ELSE ClassifyEnds("error")
    /\ UNCHANGED <<sessVars, fetchVars, submitVars, syncVars, guiVars, storeVars, ingestVars, passVars, detailVars, taskVars,
                   suggested_collections,
                   collections_dict, product_to_collection, c_todo, c_last,
                   c_result>>

ClassifyReady(names) ==
    /\ suggested_collections' = names
    /\ collections_dict' = DictInit(names)
    /\ product_to_collection' = <<>>
    /\ c_todo' = VisitOrder(c_mode, Len(c_products))
    /\ c_pc' = IF VisitOrder(c_mode, Len(c_products)) = <<>> THEN "finish"
               ELSE "classify"
    /\ UNCHANGED c_outcome

\* Step 1: the collections of the run.
ClassifyCollections ==
    /\ c_pc = "collections"
    /\ NoThreadStarting
    /\ \/ \* the request body carries user_collections (the stream reads the
          \* store key 'user_collections_input', which nothing writes)
          /\ c_mode # "stream"
          /\ \E names \in UserCollections : ClassifyReady(names)
       \/ \* the AI hierarchy parsed
          \E names \in GeneratedCollections : ClassifyReady(names)
       \/ \* the AI call or the parse of its answer failed
          /\ c_mode = "sync"
          /\ ClassifyReady(DefaultCollections)
       \/ /\ c_mode # "sync"
          /\ ClassifyEnds("error")
          /\ UNCHANGED <<suggested_collections, collections_dict,
                         product_to_collection, c_todo>>
    /\ UNCHANGED <<sessVars, fetchVars, submitVars, syncVars, guiVars, storeVars, ingestVars, passVars, detailVars, taskVars, c_mode,
                   c_products, c_last, c_result>>

\* One pass of the per-product loop body.
ClassifyOne ==
    /\ c_pc = "classify"
    /\ NoThreadStarting
    /\ c_todo # <<>>
    /\ LET idx == Head(c_todo)
           d   == collections_dict
       IN  \E reply \in Replies(DictKeys(d)) :
             LET name  == StripLabel(reply)
                 valid == reply.kind = "text" /\ name \in DictKeys(d)
                 kind  == IF valid THEN "member"
                          ELSE IF reply.kind = "text" THEN "nonmember"
                          ELSE "exception"
             IN  /\ c_last' = [idx |-> idx, kind |-> kind]
                 /\ IF valid
                    THEN /\ collections_dict' = AssignLabel(d, name, idx)
                         /\ product_to_collection' =
                                (idx :> name) @@ product_to_collection
                         /\ c_todo' = Tail(c_todo)
                         /\ c_pc' = IF Tail(c_todo) = <<>> THEN "finish"
                                    ELSE "classify"
                         /\ UNCHANGED c_outcome
                    ELSE IF d = <<>>
                    THEN \* max() of an empty dict raises, in the handler
                         \* of the call's exception too: the run's outer
                         \* handler reports the error
                         /\ ClassifyEnds("error")
                         /\ UNCHANGED <<collections_dict,
                                        product_to_collection, c_todo>>
                    ELSE /\ collections_dict' = AssignFallback(d, idx)
                         /\ product_to_collection' =
                                (idx :> FallbackName(d)) @@ product_to_collection
                         /\ c_todo' = Tail(c_todo)
                         /\ c_pc' = IF Tail(c_todo) = <<>> THEN "finish"
                                    ELSE "classify"
                         /\ UNCHANGED c_outcome
    /\ UNCHANGED <<sessVars, fetchVars, submitVars, syncVars, guiVars, storeVars, ingestVars, passVars, detailVars, taskVars, c_mode,
                   c_products, suggested_collections, c_result>>

\* After the loop: verification (the synchronous handler only), empty buckets
\* dropped, the result stored in the session and returned.
ClassifyFinish ==
    /\ c_pc = "finish"
    /\ NoThreadStarting
    /\ LET total == Len(c_products)
           all_collections ==
               IF c_mode = "sync"
               THEN Deduplicate(RemoveEmpty(
                        AssignMissing(collections_dict, product_to_collection,
                                      total)))
               ELSE RemoveEmpty(collections_dict)
       IN  /\ store_classified' = all_collections
           /\ store_classified_from' = c_products
           /\ c_result' =
                 [collections |-> Formatted(all_collections, total),
                  total_collections |-> Len(all_collections),
                  total_products |-> IF c_mode = "sync"
                                     THEN SumLen(all_collections) ELSE total]
    /\ ClassifyEnds("success")
    /\ UNCHANGED <<store_shop_url, store_products, fetchVars, submitVars,
                   syncVars, guiVars, storeVars, ingestVars, passVars, detailVars, taskVars, c_mode, c_products, suggested_collections,
                   collections_dict, product_to_collection, c_todo, c_last>>

\* The handler has answered (the worker thread has ended): the next request.
ClassifyReturn ==
    /\ c_pc = "done"
    /\ NoThreadStarting
    /\ c_pc' = "idle"
    /\ c_mode' = "none"
    /\ c_products' = <<>>
    /\ suggested_collections' = <<>>
    /\ collections_dict' = <<>>
    /\ product_to_collection' = <<>>
    /\ c_todo' = <<>>
    /\ c_last' = NoStep
    /\ c_outcome' = "none"
    /\ c_result' = NoResult
    /\ UNCHANGED <<sessVars, fetchVars, submitVars, syncVars, guiVars, storeVars, ingestVars, passVars, detailVars, taskVars>>

\* ------------------------------------------------- update-shopify-start

\* update_shopify_start: the session's products and classified collections
\* become the arguments of a worker thread.
UpdateShopifyStart ==
    /\ ~w_started
    /\ store_products # <<>>
    /\ store_classified # <<>>
    /\ store_shop_url # ""
    /\ w_started' = TRUE
    /\ w_products' = store_products
    /\ w_collections' = store_classified
    /\ w_from' = store_classified_from
    /\ UNCHANGED <<sessVars, fetchVars, clsVars, syncVars, guiVars, storeVars, ingestVars, passVars, detailVars, taskVars>>

\* The worker thread has taken its arguments (Thread.start): what it does with
\* them is SpecSync's.
WorkerThreadStart ==
    /\ w_started
    /\ w_started' = FALSE
    /\ w_products' = <<>>
    /\ w_collections' = <<>>
    /\ w_from' = <<>>
    /\ UNCHANGED <<sessVars, fetchVars, clsVars, syncVars, guiVars, storeVars, ingestVars, passVars, detailVars, taskVars>>

Next ==
    \/ FetchBegin
    \/ FetchStore
    \/ FetchFail
    \/ ClassifyBegin
    \/ ClassifyCollections
    \/ ClassifyOne
    \/ ClassifyFinish
    \/ ClassifyReturn
    \/ UpdateShopifyStart
    \/ WorkerThreadStart

Spec == Init /\ [][Next]_vars

\* ------------------------------------------------------------ the sink

\* Letter case over the names of the model: "A" is "a" in upper case.
Lower(n) == IF n = "A" THEN "a" ELSE n

\* A mutant of FindCollection: only the first listed collection is compared.
FindCollection_FirstOnly(name, listing) ==
    IF listing # <<>> /\ Lower(listing[1]) = Lower(name) THEN 1 ELSE 0

\* The search loop over the listing: the id of the first collection whose
\* lower-cased title equals the lower-cased name, 0 when there is none.
FindCollection(name, listing) ==
    IF \E i \in 1..Len(listing) : Lower(listing[i]) = Lower(name)
    THEN CHOOSE i \in 1..Len(listing) :
            /\ Lower(listing[i]) = Lower(name)
            /\ \A j \in 1..(i - 1) : Lower(listing[j]) # Lower(name)
    ELSE 0

\* -------------------------------------------------------------- sync runs

\* max_retries of create_or_get_smart_collection and update_product_metadata.
max_retries == 3

\* What the pre-flight probe can answer.
PreflightStatuses == {"200", "403", "500", "exception"}

\* A mutant of PreflightVerdict: the status of the probe is not looked at.
PreflightVerdict_StatusIgnored(status) ==
    IF status = "exception" THEN "connection_test_failed" ELSE "ok"

\* The test of the probe's answer: the message the run ends with, or "ok".
PreflightVerdict(status) ==
    IF status = "exception" THEN "connection_test_failed"
    ELSE IF status = "403" THEN "lacks_permissions"
    ELSE IF status # "200" THEN "cannot_access_api"
    ELSE "ok"

\* The class of error a message tells the caller of.
ErrorClass(message) ==
    CASE message \in {"lacks_permissions", "permission_error"} -> "permission"
      [] message \in {"cannot_access_api", "connection_test_failed"}
            -> "connectivity"
      [] message = "no_classification_data" -> "no_data"
      [] OTHER -> "none"

\* A mutant of CaughtByRetryHandler: PermissionError leaves the function.
CaughtByRetryHandler_NotPermission(error) == error # "permission"

\* The handlers that close the try block of create_or_get_smart_collection:
\* except requests.exceptions.Timeout, then except Exception, which takes
\* every error raised in the block, PermissionError included.
CaughtByRetryHandler(error) == TRUE

\* if update_product_metadata(...): success_count += 1
SuccessCount(count, updated) == IF updated THEN count + 1 ELSE count

RECURSIVE PlanOf(_, _)
\* The (collection, index) pairs of the update loops, indices outside
\* 1..len(products) skipped.
PlanOf(d, total) ==
    IF d = <<>> THEN <<>>
    ELSE LET ids == SelectSeq(Head(d).ids, LAMBDA x : 1 <= x /\ x <= total)
         IN  [k \in 1..Len(ids) |-> [name |-> Head(d).name, idx |-> ids[k]]]
                 \o PlanOf(Tail(d), total)

\* The run ends: the task record's last update, or the stream's last event.
Ends(rec, outcome, message, flag) ==
    [rec EXCEPT !.pc = "done", !.outcome = outcome, !.message = message,
                !.permission_flag = flag, !.phase = "none"]

Complete(rec) == Ends(rec, "complete", "complete", FALSE)

\* Step 2: the product loop starts.
StartProducts(rec) ==
    IF rec.plan = <<>> THEN Complete(rec)
    ELSE [rec EXCEPT !.pc = "products", !.item = 1, !.attempt = 0,
                     !.phase = "get"]

\* Step 1: the collection loop starts.
StartCollections(rec) ==
    IF rec.clean = <<>> THEN StartProducts(rec)
    ELSE [rec EXCEPT !.pc = "collections", !.item = 1, !.attempt = 0,
                     !.phase = "search"]

\* return of a sink function: an id or True ("ok"), None or False
\* ("failed").
Returns(rec, ok) ==
    [rec EXCEPT !.phase = "returned",
                !.result = IF ok THEN "ok" ELSE "failed"]

\* The caller has the value a sink function returned: the call is over.
CallOver(rec) ==
    [rec EXCEPT !.result = "none", !.n429 = 0, !.short_wait = FALSE,
                !.attempt = 0, !.put = IdleWorker.put]

\* The collection loop after create_or_get_smart_collection returned (an id,
\* or None).
CollectionDone(rec, got_id) ==
    LET r == [rec EXCEPT !.collections_ok = IF got_id THEN @ + 1 ELSE @]
    IN  IF rec.item < Len(rec.clean)
        THEN [r EXCEPT !.item = @ + 1, !.attempt = 0, !.phase = "search"]
        ELSE StartProducts(r)

\* A mutant of CollectionRetry: the loop has no last attempt.
CollectionRetry_Unbounded(rec) ==
    [rec EXCEPT !.attempt = @ + 1, !.phase = "search"]

\* continue: the next attempt of the for loop, or return None after the last.
CollectionRetry(rec) ==
    IF rec.attempt < max_retries - 1
    THEN [rec EXCEPT !.attempt = @ + 1, !.phase = "search"]
    ELSE Returns(rec, FALSE)

\* The product loop after update_product_metadata returned (True or False).
ProductDone(rec, updated) ==
    LET r == [rec EXCEPT
                 !.success_count = SuccessCount(@, updated),
                 !.updates_ok = IF updated THEN @ + 1 ELSE @]
    IN  IF rec.item < Len(rec.plan)
        THEN [r EXCEPT !.item = @ + 1, !.attempt = 0, !.phase = "get"]
        ELSE Complete(r)

\* continue: the next attempt of the for loop, or return False after the last.
ProductRetry(rec) ==
    IF rec.attempt < max_retries - 1
    THEN [rec EXCEPT !.attempt = @ + 1, !.phase = "get"]
    ELSE Returns(rec, FALSE)

\* The 429 answers of the sink: without a Retry-After header, with a
\* number of seconds written as an integer, or written with a decimal point.
RateLimitAnswers == {"429", "429 Retry-After: 3", "429 Retry-After: 3.0"}

\* The Retry-After header of a 429 answer.
RetryAfter(answer) ==
    CASE answer = "429 Retry-After: 3" -> "3"
      [] answer = "429 Retry-After: 3.0" -> "3.0"
      [] OTHER -> "absent"

\* The seconds the sink asks the client to wait (2 when it names none).
AskedSeconds(header) == IF header = "absent" THEN 2 ELSE 3

\* int(response.headers.get('Retry-After', 2)): int() of a string takes
\* an integer literal and raises ValueError on "3.0".
ParseRetryAfter(header) ==
    CASE header = "absent" -> [ok |-> TRUE, value |-> 2]
      [] header = "3" -> [ok |-> TRUE, value |-> 3]
      [] OTHER -> [ok |-> FALSE, value |-> 0]

\* The run slept for so many half seconds after a 429 answer; when the call
\* has an attempt left, its next request follows that sleep.
Slept(rec, half_seconds, header) ==
    [rec EXCEPT !.short_wait =
        @ \/ (/\ rec.attempt < max_retries - 1
              /\ half_seconds < 2 * AskedSeconds(header))]

\* A 429 answer in create_or_get_smart_collection: sleep for Retry-After
\* and continue; the ValueError of int() goes to except Exception, which
\* sleeps 2 * (attempt + 1) seconds and continues.
CollectionRateLimited(rec, header) ==
    LET r      == [rec EXCEPT !.all_ok = FALSE, !.n429 = @ + 1]
        parsed == ParseRetryAfter(header)
    IN  IF parsed.ok
        THEN CollectionRetry(Slept(r, 2 * parsed.value, header))
        ELSE CollectionRetry(Slept(r, 4 * (rec.attempt + 1), header))

\* A 429 answer in update_product_metadata: sleep for Retry-After and
\* continue, the next attempt sleeping half a second before its request; the
\* ValueError of int() goes to except Exception, which returns False.
ProductRateLimited(rec, header) ==
    LET r      == [rec EXCEPT !.all_ok = FALSE, !.n429 = @ + 1]
        parsed == ParseRetryAfter(header)
    IN  IF parsed.ok
        THEN ProductRetry(Slept(r, 2 * parsed.value + 1, header))
        ELSE Returns(r, FALSE)

\* One step of run w: whether the sink answered its request with a failure,
\* the run's record after the step, and the sink after it.
SyncStep(w, fault, rec, collections, types) ==
    /\ fault => faults < MaxFaults
    /\ faults' = IF fault THEN faults + 1 ELSE faults
    /\ worker' = [worker EXCEPT ![w] = rec]
    /\ sink_collections' = collections
    /\ sink_product_type' = types
    /\ types_after_first' =
          IF w = 1 /\ rec.pc = "done" THEN types ELSE types_after_first
    /\ UNCHANGED <<sessVars, fetchVars, clsVars, submitVars, guiVars, storeVars, ingestVars, passVars, detailVars, taskVars>>

\* A sink call failed in this run.
Failed(rec) == [rec EXCEPT !.all_ok = FALSE]

\* The pre-flight probe, and on success the checks and the deduplication
\* that precede the first write.
SyncPreflight(w) ==
    /\ worker[w].pc = "preflight"
    /\ \E status \in PreflightStatuses :
          LET rec     == [worker[w] EXCEPT !.preflight = status]
              verdict == PreflightVerdict(status)
              clean   == Deduplicate(rec.collections)
          IN  SyncStep(w, status # "200",
                  IF verdict # "ok"
                  THEN Ends(Failed(rec), "error", verdict, FALSE)
                  ELSE IF rec.mode = "stream" /\ rec.collections = <<>>
                  THEN Ends(rec, "error", "no_classification_data", FALSE)
                  ELSE StartCollections(
                          [rec EXCEPT
                              !.clean = clean,
                              !.plan = PlanOf(clean, Len(rec.products)),
                              !.duplicates_removed =
                                  DuplicatesRemoved(rec.collections),
                              !.total_products = SumLen(clean),
                              !.total_collections = Len(clean)]),
                  sink_collections, sink_product_type)

\* One attempt of create_or_get_smart_collection up to the answer of its
\* search request.
SyncSearch(w) ==
    /\ worker[w].pc = "collections"
    /\ worker[w].phase = "search"
    /\ LET rec  == worker[w]
           name == rec.clean[rec.item].name
       IN  \E answer \in {"ok", "timeout", "http_error", "malformed"}
                          \cup RateLimitAnswers :
              SyncStep(w, answer # "ok",
                  IF answer \in RateLimitAnswers
                  THEN CollectionRateLimited(rec, RetryAfter(answer))
                  ELSE IF answer # "ok" THEN CollectionRetry(Failed(rec))
                  ELSE IF FindCollection(name, sink_collections) # 0
                  THEN Returns(rec, TRUE)
                  ELSE [rec EXCEPT !.phase = "create"],
                  sink_collections, sink_product_type)

\* The create request of the attempt and what follows its answer.
SyncCreate(w) ==
    /\ worker[w].pc = "collections"
    /\ worker[w].phase = "create"
    /\ LET rec  == [worker[w] EXCEPT !.wrote = TRUE]
           name == rec.clean[rec.item].name
       IN  \E answer \in {"created", "timeout", "timeout_lost",
                          "http_error", "errors_body", "malformed"}
                          \cup RateLimitAnswers :
              LET made == answer \in {"created", "timeout_lost"}
                  r    == [rec EXCEPT !.created = @ \/ made]
              IN  SyncStep(w, answer # "created",
                      IF answer = "created" THEN Returns(r, TRUE)
                      ELSE IF answer \in RateLimitAnswers
                      THEN CollectionRateLimited(r, RetryAfter(answer))
                      ELSE IF answer = "errors_body"
                      THEN \* raise PermissionError(error_msg)
                           LET seen == [Failed(r) EXCEPT
                                           !.permission_seen = TRUE]
                           IN  IF CaughtByRetryHandler("permission")
                               THEN CollectionRetry(seen)
                               ELSE Ends(seen, "error", "permission_error",
                                         seen.mode = "stream")
                      ELSE CollectionRetry(Failed(r)),
                      IF made THEN Append(sink_collections, name)
                      ELSE sink_collections,
                      sink_product_type)

\* One attempt of update_product_metadata up to the answer of its GET.
SyncProductGet(w) ==
    /\ worker[w].pc = "products"
    /\ worker[w].phase = "get"
    /\ LET rec == worker[w]
       IN  \E answer \in {"ok", "timeout", "http_error", "exception"}
                          \cup RateLimitAnswers :
              SyncStep(w, answer # "ok",
                  IF answer = "ok" THEN [rec EXCEPT !.phase = "put"]
                  ELSE IF answer \in RateLimitAnswers
                  THEN ProductRateLimited(rec, RetryAfter(answer))
                  ELSE IF answer = "exception"
                  THEN Returns(Failed(rec), FALSE)
                  ELSE ProductRetry(Failed(rec)),
                  sink_collections, sink_product_type)

\* What the GET of a product answers: the product as the sink holds it, with
\* the tags it was fetched by.
ProductData(product, types) ==
    [id |-> product, tags |-> "x", product_type |-> types[product]]

\* A mutant of UpdatePayload: the tags of the product are sent back as read.
UpdatePayload_KeepsTags(product_id, collection_name, product_data) ==
    [id |-> product_id, tags |-> product_data.tags,
     product_type |-> collection_name]

\* update_payload["product"]: the id, and the collection name as tags and as
\* product_type; product_data is read and not used.
UpdatePayload(product_id, collection_name, product_data) ==
    [id |-> product_id, tags |-> collection_name,
     product_type |-> collection_name]

\* The PUT of the attempt and what follows its answer.
SyncProductPut(w) ==
    /\ worker[w].pc = "products"
    /\ worker[w].phase = "put"
    /\ LET rec     == [worker[w] EXCEPT !.wrote = TRUE]
           name    == rec.plan[rec.item].name
           product == rec.products[rec.plan[rec.item].idx]
           payload == UpdatePayload(product, name,
                                    ProductData(product, sink_product_type))
       IN  \E answer \in {"ok", "timeout", "timeout_lost", "http_error",
                          "exception"} \cup RateLimitAnswers :
              SyncStep(w, answer # "ok",
                  IF answer = "ok"
                  THEN Returns([rec EXCEPT !.put = payload], TRUE)
                  ELSE IF answer \in RateLimitAnswers
                  THEN ProductRateLimited(rec, RetryAfter(answer))
                  ELSE IF answer = "exception"
                  THEN Returns(Failed(rec), FALSE)
                  ELSE ProductRetry(Failed(rec)),
                  sink_collections,
                  IF answer \in {"ok", "timeout_lost"}
                  THEN [sink_product_type EXCEPT
                           ![payload.id] = payload.product_type]
                  ELSE sink_product_type)

\* The caller takes the value a sink function returned and goes on with its
\* loop.
SyncReturn(w) ==
    /\ worker[w].phase = "returned"
    /\ LET rec == CallOver(worker[w])
           ok  == worker[w].result = "ok"
       IN  SyncStep(w, FALSE,
               IF rec.pc = "collections" THEN CollectionDone(rec, ok)
               ELSE ProductDone(rec, ok),
               sink_collections, sink_product_type)

\* A submitted run: the arguments of the worker thread, or what the stream
\* read from the session.
Submitted(mode, args, after) ==
    [IdleWorker EXCEPT !.pc = "preflight", !.mode = mode,
                       !.products = args.products,
                       !.collections = args.collections,
                       !.after_first = after]

\* update_shopify_start answers 400 unless the session holds products and
\* classified collections; the stream has no such test before its probe.
MaySubmit(mode, args) ==
    mode = "background" => (args.products # <<>> /\ args.collections # <<>>)

SyncModes == {"background", "stream"}

\* The session is synchronised again by the same route, its products and
\* its partition unchanged, while the first run is under way or after it.
SyncSubmitAgain ==
    /\ worker[1].pc # "idle"
    /\ worker[2].pc = "idle"
    /\ LET mode == worker[1].mode
           args == [products |-> worker[1].products,
                    collections |-> worker[1].collections]
       IN  /\ MaySubmit(mode, args)
           /\ worker' = [worker EXCEPT ![2] =
                            Submitted(mode, args, worker[1].pc = "done")]
    /\ UNCHANGED <<sessVars, fetchVars, clsVars, submitVars, guiVars, storeVars, ingestVars, passVars, detailVars, taskVars,
                   sink_collections, sink_product_type, types_after_first,
                   faults>>

\* What a session can hold when a sync is asked for: a partition of its two
\* products; the partition of two products beside a product list fetched
\* later (one product, of another tag); buckets whose names differ in letter
\* case only; and products that were never classified.
SyncArgs ==
    LET ab == <<[name |-> "a", ids |-> <<1>>], [name |-> "b", ids |-> <<2>>]>>
        aA == <<[name |-> "a", ids |-> <<1>>], [name |-> "A", ids |-> <<2>>]>>
    IN  {[products |-> <<1, 2>>, collections |-> ab],
         [products |-> <<3>>, collections |-> ab],
         [products |-> <<1, 2>>, collections |-> aA],
         [products |-> <<1>>, collections |-> <<>>]}

\* The collections the sink holds before the first run.
SinkBefore == {<<>>, <<"A">>}

InitSync ==
    /\ InitFront
    /\ \E mode \in SyncModes, args \in SyncArgs :
          /\ MaySubmit(mode, args)
          /\ worker = [w \in Workers |->
                          IF w = 1 THEN Submitted(mode, args, FALSE)
                          ELSE IdleWorker]
    /\ sink_collections \in SinkBefore
    /\ sink_product_type = [p \in ProductIds |-> OtherType]
    /\ types_after_first = <<>>
    /\ faults = 0
    /\ GuiIdle
    /\ TasksIdle
    /\ StoreIdle
    /\ IngestIdle
    /\ TagsIdle
    /\ PassIdle
    /\ DetailIdle

NextSync ==
    \/ \E w \in Workers : SyncPreflight(w)
    \/ \E w \in Workers : SyncSearch(w)
    \/ \E w \in Workers : SyncCreate(w)
    \/ \E w \in Workers : SyncProductGet(w)
    \/ \E w \in Workers : SyncProductPut(w)
    \/ \E w \in Workers : SyncReturn(w)
    \/ SyncSubmitAgain

SpecSync == InitSync /\ [][NextSync]_vars

\* ------------------------------------------- the desktop variant (test.py)

\* The status of an answer that never came (a transport error).
NoAnswer == 0

\* What the sink answers to POST collects.json.
CollectStatuses == {201, 422, 401, 404, 429, 500, NoAnswer}

\* response.raise_for_status() raises HTTPError for a status of 400 to 599.
RaisesForStatus(status) == 400 <= status /\ status < 600

\* A mutant of AddProductResult: 422 is not set apart from the other statuses.
AddProductResult_422Raises(status) ==
    IF status = NoAnswer THEN FALSE ELSE ~RaisesForStatus(status)

\* What add_product_to_collection returns: True on 422 and on a status
\* raise_for_status lets pass, False on the exception of anything else.
AddProductResult(status) ==
    IF status = NoAnswer THEN FALSE
    ELSE IF status = 422 THEN TRUE
    ELSE ~RaisesForStatus(status)

\* The loop over self.classified_collections.items() goes to its next
\* bucket, or update_shopify ends with its status line.
GuiNextBucket(g) ==
    IF g.bucket < Len(g.classified_collections)
    THEN [g EXCEPT !.pc = "collection", !.bucket = @ + 1, !.position = 0,
                   !.collection_id = 0]
    ELSE [g EXCEPT !.pc = "done",
                   !.status = IF g.success_count = Len(g.products)
                              THEN "SUCCESS" ELSE "PARTIAL SUCCESS"]

RECURSIVE GuiNextIndex(_)
\* The loop over the indices of the bucket goes to its next index inside
\* 1..len(self.products), or the bucket is over.
GuiNextIndex(g) ==
    LET ids == g.classified_collections[g.bucket].ids
    IN  IF g.position >= Len(ids) THEN GuiNextBucket(g)
        ELSE LET n == [g EXCEPT !.pc = "add", !.position = @ + 1]
             IN  IF 1 <= ids[n.position] /\ ids[n.position] <= Len(g.products)
                 THEN n ELSE GuiNextIndex(n)

\* create_or_get_collection: the search request, and when no title matches
\* the create request; any exception makes it return None, and update_shopify
\* skips the products of the bucket.
GuiCollection ==
    /\ gui.pc = "collection"
    /\ LET name  == gui.classified_collections[gui.bucket].name
           found == FindCollection(name, custom_collections)
       IN  \E answer \in {"ok", "search_failed", "create_failed"} :
              /\ answer = "create_failed" => found = 0
              /\ custom_collections' =
                    IF answer = "ok" /\ found = 0
                    THEN Append(custom_collections, name)
                    ELSE custom_collections
              /\ gui' = IF answer # "ok"
                        THEN GuiNextBucket(
                                [gui EXCEPT !.skipped = @ \cup {gui.bucket}])
                        ELSE GuiNextIndex(
                                [gui EXCEPT !.collection_id =
                                    IF found # 0 THEN found
                                    ELSE Len(custom_collections) + 1])
    /\ UNCHANGED <<sessVars, fetchVars, clsVars, submitVars, syncVars,
                   collects, taskVars, storeVars, ingestVars, passVars, detailVars>>

\* add_product_to_collection for the index of the loop, and the count of
\* update_shopify. The sink answers 201 to a new pair and 422 to a pair it
\* already holds.
GuiAddProduct ==
    /\ gui.pc = "add"
    /\ LET idx     == gui.classified_collections[gui.bucket].ids[gui.position]
           product == gui.products[idx]
           pair    == <<product, gui.collection_id>>
       IN  \E status \in CollectStatuses :
              /\ status = 201 => pair \notin collects
              /\ status = 422 => pair \in collects
              /\ collects' = IF status = 201 THEN collects \cup {pair}
                             ELSE collects
              /\ LET added == AddProductResult(status)
                 IN  gui' = GuiNextIndex(
                        [gui EXCEPT
                            !.success_count = IF added THEN @ + 1 ELSE @,
                            !.calls = Append(@, [idx |-> idx,
                                                 status |-> status,
                                                 added |-> added])])
    /\ UNCHANGED <<sessVars, fetchVars, clsVars, submitVars, syncVars,
                   custom_collections, taskVars, storeVars, ingestVars, passVars, detailVars>>

\* What the window holds when 'Update Shopify' is pressed: the products and
\* their partition.
GuiArgs ==
    {[products |-> <<1, 2>>,
      collections |-> <<[name |-> "a", ids |-> <<1>>],
                        [name |-> "b", ids |-> <<2>>]>>],
     [products |-> <<1, 2>>,
      collections |-> <<[name |-> "a", ids |-> <<1, 2>>]>>]}

\* The sink before the run: empty, or with a collection 'a' that holds
\* product 2.
GuiSinkBefore ==
    {[custom_collections |-> <<>>, collects |-> {}],
     [custom_collections |-> <<"a">>, collects |-> {<<2, 1>>}]}

\* update_shopify has been called with classification data.
InitGui ==
    /\ InitFront
    /\ SyncIdle
    /\ \E args \in GuiArgs :
          gui = GuiNextBucket(
                   [IdleGui EXCEPT !.products = args.products,
                       !.classified_collections = args.collections])
    /\ \E sink \in GuiSinkBefore :
          /\ custom_collections = sink.custom_collections
          /\ collects = sink.collects
    /\ TasksIdle
    /\ StoreIdle
    /\ IngestIdle
    /\ TagsIdle
    /\ PassIdle
    /\ DetailIdle

NextGui ==
    \/ GuiCollection
    \/ GuiAddProduct

SpecGui == InitGui /\ [][NextGui]_vars

\* ------------------------------------------------------ the task registry

\* update_task_progress: the record of task_id is made if there is none, and
\* its status and progress are replaced.
update_task_progress(tasks, task_id, status, progress) ==
    [tasks EXCEPT ![task_id] = [status |-> status, progress |-> progress]]

\* get_task_status: the record, or None (NoTask).
get_task_status(tasks, task_id) == tasks[task_id]

\* One step of the thread of task id t: the thread after it, and its call of
\* update_task_progress when write says so.
TaskStep(t, thread, write, status, progress) ==
    /\ task_thread' = [task_thread EXCEPT ![t] = thread]
    /\ IF write
       THEN /\ classification_tasks' =
                  update_task_progress(classification_tasks, t, status,
                                       progress)
            /\ last_update' = [task_id |-> t, by |-> t,
                               before |-> classification_tasks[t]]
       ELSE UNCHANGED <<classification_tasks, last_update>>
    /\ UNCHANGED <<sessVars, fetchVars, clsVars, submitVars, syncVars,
                   guiVars, storeVars, ingestVars, passVars, detailVars, status_reply>>

\* The first statement of both workers:
\* update_task_progress(task_id, 'running', 0, 'Starting ...').
TaskBegin(t) ==
    /\ task_thread[t].pc = "start"
    /\ TaskStep(t, [task_thread[t] EXCEPT !.pc =
                       IF task_thread[t].kind = "classify" THEN "collections"
                       ELSE "preflight"],
                TRUE, "running", 0)

\* A mutant of AfterGenerationError: the handler has no return.
AfterGenerationError_NoReturn(thread) == [thread EXCEPT !.pc = "processing"]

\* return, after the error update of the handler of the generation.
AfterGenerationError(thread) == [thread EXCEPT !.pc = "done"]

\* Step 1 of run_classification_background up to its update with progress
\* 5; without OPENAI_API_KEY the worker writes the error and returns.
TaskCollections(t) ==
    /\ task_thread[t].pc = "collections"
    /\ \E choice \in {"no_api_key", "user_collections", "generate"} :
          IF choice = "no_api_key"
          THEN TaskStep(t, [task_thread[t] EXCEPT !.pc = "done"],
                        TRUE, "error", 0)
          ELSE TaskStep(t, [task_thread[t] EXCEPT !.pc =
                               IF choice = "generate" THEN "generating"
                               ELSE "processing"],
                        TRUE, "running", 5)

\* The generation of the collections returned: a hierarchy (which may be
\* empty), or an exception of the call or of the parse of its answer.
TaskGenerated(t) ==
    /\ task_thread[t].pc = "generating"
    /\ \E answer \in {"hierarchy", "empty_hierarchy", "exception"} :
          IF answer = "exception"
          THEN TaskStep(t, AfterGenerationError(task_thread[t]),
                        TRUE, "error", 0)
          ELSE TaskStep(t, [task_thread[t] EXCEPT
                               !.pc = "processing",
                               !.empty = (answer = "empty_hierarchy")],
                        TRUE, "running", 10)

\* update_task_progress(task_id, 'running', 10, 'Processing ...') before
\* the loop over the batches.
TaskProcessing(t) ==
    /\ task_thread[t].pc = "processing"
    /\ TaskStep(t, [task_thread[t] EXCEPT !.pc = "batch", !.batch_num = 0],
                TRUE, "running", 10)

\* 10 + int((batch_num / total_batches) * 85)
BatchProgress(batch_num, total_batches) ==
    10 + (batch_num * 85) \div total_batches

\* 10 + int((idx / total_products) * 85)
ProductProgress(idx, total_products) == 10 + (idx * 85) \div total_products

\* A mutant of NextBatch: the loop over the batches does not advance.
NextBatch_Same(batch_num) == batch_num

\* for batch_num in range(total_batches)
NextBatch(batch_num) == batch_num + 1

\* The head of the loop over the batches: its update, or the end of the loop.
TaskBatch(t) ==
    /\ task_thread[t].pc = "batch"
    /\ LET th == task_thread[t]
       IN  IF th.batch_num < TotalBatches(th.total)
           THEN TaskStep(t, [th EXCEPT !.pc = "product",
                                       !.idx = BatchStart(th.batch_num)],
                         TRUE, "running",
                         BatchProgress(th.batch_num, TotalBatches(th.total)))
           ELSE TaskStep(t, [th EXCEPT !.pc = "store"], FALSE, "none", 0)

\* One pass of the loop over the products of a batch: the update of every
\* tenth index and of the first of the batch, and the classifier call. With
\* no collection to choose from max() raises, which the worker's outer
\* handler answers with the error update.
TaskProduct(t) ==
    /\ task_thread[t].pc = "product"
    /\ LET th == task_thread[t]
       IN  IF th.idx > BatchEnd(th.batch_num, th.total)
           THEN TaskStep(t, [th EXCEPT !.pc = "batch",
                                       !.batch_num = NextBatch(@)],
                         FALSE, "none", 0)
           ELSE IF th.empty
           THEN TaskStep(t, [th EXCEPT !.pc = "done"], TRUE, "error", 0)
           ELSE TaskStep(t, [th EXCEPT !.idx = @ + 1],
                         th.idx % 10 = 0 \/ th.idx = BatchStart(th.batch_num),
                         "running", ProductProgress(th.idx, th.total))

\* The results are stored and the task is complete.
TaskStore(t) ==
    /\ task_thread[t].pc = "store"
    /\ TaskStep(t, [task_thread[t] EXCEPT !.pc = "done"],
                TRUE, "complete", 100)

\* Most products of a background classification in SpecProgress.
MaxTotal == 501

\* The thread classify_start has started for a task id.
ClassifyThread(total) ==
    [NoThread EXCEPT !.pc = "start", !.kind = "classify", !.total = total]

\* A background classification of 1 to MaxTotal products has been submitted.
InitProgress ==
    /\ InitFront
    /\ SyncIdle
    /\ GuiIdle
    /\ StoreIdle
    /\ IngestIdle
    /\ TagsIdle
    /\ PassIdle
    /\ DetailIdle
    /\ classification_tasks = [t \in TaskIds |-> NoTask]
    /\ \E total \in 1..MaxTotal :
          task_thread = [t \in TaskIds |->
                            IF t = "t1" THEN ClassifyThread(total)
                            ELSE NoThread]
    /\ status_reply = NoReply
    /\ last_update = NoUpdate

NextProgress ==
    \/ TaskBegin("t1")
    \/ TaskCollections("t1")
    \/ TaskGenerated("t1")
    \/ TaskProcessing("t1")
    \/ TaskBatch("t1")
    \/ TaskProduct("t1")
    \/ TaskStore("t1")

SpecProgress == InitProgress /\ [][NextProgress]_vars

\* ------------------------------------- the task of a background sync run

\* The pre-flight probe of run_shopify_update_background: on a failure the
\* error update and return.
TaskPreflight(t) ==
    /\ task_thread[t].pc = "preflight"
    /\ \E status \in PreflightStatuses :
          IF PreflightVerdict(status) = "ok"
          THEN TaskStep(t, [task_thread[t] EXCEPT !.pc = "dedup"],
                        FALSE, "none", 0)
          ELSE TaskStep(t, [task_thread[t] EXCEPT !.pc = "done"],
                        TRUE, "error", 0)

\* The deduplication, with its update when an index was removed.
TaskDedup(t) ==
    /\ task_thread[t].pc = "dedup"
    /\ \E duplicates_removed \in BOOLEAN :
          TaskStep(t, [task_thread[t] EXCEPT !.pc = "step1"],
                   duplicates_removed, "running", 5)

\* The loop over the collections goes to its next name, or is over.
NextCollection(thread) ==
    IF thread.item < thread.total_collections
    THEN [thread EXCEPT !.pc = "collection", !.item = @ + 1]
    ELSE [thread EXCEPT !.pc = "step2"]

\* The loop over the products goes to its next index, or is over.
NextProduct(thread) ==
    IF thread.item < thread.total
    THEN [thread EXCEPT !.pc = "product_head", !.item = @ + 1]
    ELSE [thread EXCEPT !.pc = "finish"]

\* update_task_progress(task_id, 'running', 10, 'Step 1/2: ...')
TaskStepOne(t) ==
    /\ task_thread[t].pc = "step1"
    /\ TaskStep(t, NextCollection([task_thread[t] EXCEPT !.item = 0]),
                TRUE, "running", 10)

\* 10 + int((processed_collections / total_collections) * 30)
CollectionProgress(processed_collections, total_collections) ==
    10 + (processed_collections * 30) \div total_collections

\* A mutant of UpdateProgress: the base of the second step is left out.
UpdateProgress_NoBase(processed_products, total_products) ==
    (processed_products * 55) \div total_products

\* 40 + int((processed_products / total_products) * 55)
UpdateProgress(processed_products, total_products) ==
    40 + (processed_products * 55) \div total_products

\* The update at the head of the loop over the collections, before the call
\* of create_or_get_smart_collection.
TaskCollection(t) ==
    /\ task_thread[t].pc = "collection"
    /\ LET th == task_thread[t]
       IN  TaskStep(t, [th EXCEPT !.pc = "create", !.attempt = 0],
                    TRUE, "running",
                    CollectionProgress(th.item, th.total_collections))

\* One attempt of a sink function (for attempt in range(max_retries)): it
\* returns its value, or fails and continues, or fails for the last time.
TaskSinkCall(t) ==
    /\ task_thread[t].pc \in {"create", "update"}
    /\ LET th == task_thread[t]
       IN  \E answer \in {"ok", "429", "failed"} :
              TaskStep(t,
                  IF answer = "ok"
                  THEN IF th.pc = "create" THEN NextCollection(th)
                       ELSE NextProduct(th)
                  ELSE IF th.attempt < max_retries - 1
                  THEN [th EXCEPT !.attempt = @ + 1]
                  ELSE IF th.pc = "create"
                  THEN [th EXCEPT !.pc = "create_failed"]
                  ELSE NextProduct(th),
                  FALSE, "none", 0)

\* if not collection_id: the update that tells of the failure.
TaskCollectionFailed(t) ==
    /\ task_thread[t].pc = "create_failed"
    /\ LET th == task_thread[t]
       IN  TaskStep(t, NextCollection(th), TRUE, "running",
                    CollectionProgress(th.item, th.total_collections))

\* update_task_progress(task_id, 'running', 40, 'Step 2/2: ...')
TaskStepTwo(t) ==
    /\ task_thread[t].pc = "step2"
    /\ TaskStep(t, NextProduct([task_thread[t] EXCEPT !.item = 0]),
                TRUE, "running", 40)

\* total_products = len(seen_products): the distinct indices of the
\* buckets, those outside 1..len(products) included.
TotalProducts(thread) == thread.total + thread.outside

\* The head of the loop over the products: the update of every tenth
\* product, before the call of update_product_metadata. An index outside
\* 1..len(products) takes no pass and is not counted in processed_products.
TaskUpdate(t) ==
    /\ task_thread[t].pc = "product_head"
    /\ LET th == task_thread[t]
       IN  TaskStep(t, [th EXCEPT !.pc = "update", !.attempt = 0],
                    th.item % 10 = 0, "running",
                    UpdateProgress(th.item, TotalProducts(th)))

\* update_task_progress(task_id, 'complete', 100, ...)
TaskFinish(t) ==
    /\ task_thread[t].pc = "finish"
    /\ TaskStep(t, [task_thread[t] EXCEPT !.pc = "done"],
                TRUE, "complete", 100)

\* The thread update_shopify_start has started for a task id.
UpdateThread(total_collections, in_range, outside) ==
    [NoThread EXCEPT !.pc = "start", !.kind = "update",
                     !.total_collections = total_collections,
                     !.total = in_range, !.outside = outside]

\* classify_start: a new task id, its thread started and the id returned.
\* The handler makes no record.
TaskClassifyStart(t) ==
    /\ t = "t1"
    /\ task_thread[t].pc = "none"
    /\ \E total \in 1..MaxProducts :
          task_thread' = [task_thread EXCEPT ![t] = ClassifyThread(total)]
    /\ UNCHANGED <<sessVars, fetchVars, clsVars, submitVars, syncVars,
                   guiVars, storeVars, ingestVars, passVars, detailVars, classification_tasks, status_reply, last_update>>

\* update_shopify_start: a new task id, its thread started and the id
\* returned. The handler makes no record. The partition has a bucket at
\* least; its indices may all lie outside the product list.
TaskUpdateStart(t) ==
    /\ t = "t2"
    /\ task_thread[t].pc = "none"
    /\ \E total_collections \in 1..MaxProducts, total \in {0, MaxProducts} :
          task_thread' = [task_thread EXCEPT ![t] =
                             UpdateThread(total_collections, total,
                                          MaxProducts - total)]
    /\ UNCHANGED <<sessVars, fetchVars, clsVars, submitVars, syncVars,
                   guiVars, storeVars, ingestVars, passVars, detailVars, classification_tasks, status_reply, last_update>>

\* classification_status and update_shopify_status for a task id the caller
\* was given: 'Task not found' when get_task_status returns None.
TaskStatus(t) ==
    /\ task_thread[t].pc # "none"
    /\ status_reply' =
          IF get_task_status(classification_tasks, t) = NoTask
          THEN "Task not found" ELSE "found"
    /\ UNCHANGED <<sessVars, fetchVars, clsVars, submitVars, syncVars,
                   guiVars, storeVars, ingestVars, passVars, detailVars, classification_tasks, task_thread, last_update>>

\* The steps of the thread of task id t.
ThreadNext(t) ==
    \/ TaskBegin(t)
    \/ TaskCollections(t)
    \/ TaskGenerated(t)
    \/ TaskProcessing(t)
    \/ TaskBatch(t)
    \/ TaskProduct(t)
    \/ TaskStore(t)
    \/ TaskPreflight(t)
    \/ TaskDedup(t)
    \/ TaskStepOne(t)
    \/ TaskCollection(t)
    \/ TaskSinkCall(t)
    \/ TaskCollectionFailed(t)
    \/ TaskStepTwo(t)
    \/ TaskUpdate(t)
    \/ TaskFinish(t)

NextTasks ==
    \/ \E t \in TaskIds : TaskClassifyStart(t)
    \/ \E t \in TaskIds : TaskUpdateStart(t)
    \/ \E t \in TaskIds : TaskStatus(t)
    \/ \E t \in TaskIds : TaskBegin(t)
    \/ \E t \in TaskIds : TaskCollections(t)
    \/ \E t \in TaskIds : TaskGenerated(t)
    \/ \E t \in TaskIds : TaskProcessing(t)
    \/ \E t \in TaskIds : TaskBatch(t)
    \/ \E t \in TaskIds : TaskProduct(t)
    \/ \E t \in TaskIds : TaskStore(t)
    \/ \E t \in TaskIds : TaskPreflight(t)
    \/ \E t \in TaskIds : TaskDedup(t)
    \/ \E t \in TaskIds : TaskStepOne(t)
    \/ \E t \in TaskIds : TaskCollection(t)
    \/ \E t \in TaskIds : TaskSinkCall(t)
    \/ \E t \in TaskIds : TaskCollectionFailed(t)
    \/ \E t \in TaskIds : TaskStepTwo(t)
    \/ \E t \in TaskIds : TaskUpdate(t)
    \/ \E t \in TaskIds : TaskFinish(t)

\* A started thread is scheduled, and every external call it makes returns
\* or times out.
SpecTasks ==
    Init /\ [][NextTasks]_vars /\ \A t \in TaskIds : WF_vars(ThreadNext(t))

\* ------------------------------- the progress of one background task

\* Most indices inside 1..len(products) of the buckets of a sync task, and
\* most products of a classification, in SpecBackground.
MaxUpdates == 21

\* Most indices outside 1..len(products) of the buckets of a sync task.
MaxOutside == 1

\* Most buckets of a sync task.
MaxCollections == 3

\* One background task has been submitted: a classification of 1 to
\* MaxUpdates products, or a sync of a partition whose buckets (each with
\* an index at least) hold up to MaxUpdates indices of products and up to
\* MaxOutside indices of no product.
InitBackground ==
    /\ InitFront
    /\ SyncIdle
    /\ GuiIdle
    /\ StoreIdle
    /\ IngestIdle
    /\ TagsIdle
    /\ PassIdle
    /\ DetailIdle
    /\ classification_tasks = [t \in TaskIds |-> NoTask]
    /\ \/ \E total \in 1..MaxUpdates :
             task_thread = [t \in TaskIds |->
                               IF t = "t1" THEN ClassifyThread(total)
                               ELSE NoThread]
       \/ \E total_collections \in 1..MaxCollections,
             in_range \in 0..MaxUpdates, outside \in 0..MaxOutside :
             /\ total_collections <= in_range + outside
             /\ task_thread = [t \in TaskIds |->
                                  IF t = "t2"
                                  THEN UpdateThread(total_collections,
                                                    in_range, outside)
                                  ELSE NoThread]
    /\ status_reply = NoReply
    /\ last_update = NoUpdate

NextBackground ==
    \/ \E t \in TaskIds : TaskBegin(t)
    \/ \E t \in TaskIds : TaskCollections(t)
    \/ \E t \in TaskIds : TaskGenerated(t)
    \/ \E t \in TaskIds : TaskProcessing(t)
    \/ \E t \in TaskIds : TaskBatch(t)
    \/ \E t \in TaskIds : TaskProduct(t)
    \/ \E t \in TaskIds : TaskStore(t)
    \/ \E t \in TaskIds : TaskPreflight(t)
    \/ \E t \in TaskIds : TaskDedup(t)
    \/ \E t \in TaskIds : TaskStepOne(t)
    \/ \E t \in TaskIds : TaskCollection(t)
    \/ \E t \in TaskIds : TaskSinkCall(t)
    \/ \E t \in TaskIds : TaskCollectionFailed(t)
    \/ \E t \in TaskIds : TaskStepTwo(t)
    \/ \E t \in TaskIds : TaskUpdate(t)
    \/ \E t \in TaskIds : TaskFinish(t)

SpecBackground == InitBackground /\ [][NextBackground]_vars

\* ------------------------------------------- the session store and the locks
\* data_store under store_lock and classification_tasks under tasks_lock, as
\* request-handler threads and worker threads use them.  A thread runs one
\* call at a time; a call is the sequence of its steps.

\* The expiry age of cleanup_old_sessions, in seconds.
TTL == 86400

\* The clock runs up to MaxDays times the expiry age and MaxSeconds seconds,
\* in steps of one second and of the expiry age.
MaxDays == 2
MaxSeconds == 1

\* A mutant of Expired: the comparison is not strict.
Expired_AtTTL(data, at) == data.present /\ at - data.created_at >= TTL

\* (now - data.get('created_at', now)).total_seconds() > 86400
Expired(data, at) == data.present /\ at - data.created_at > TTL

\* The store after the sweep: every expired session deleted.
cleanup_old_sessions(store, at) ==
    [sid \in SessionIds |->
        IF Expired(store[sid], at) THEN NoSession ELSE store[sid]]

\* if sid not in data_store: data_store[sid] = {'created_at': now}, and the
\* key set.
WriteSession(store, sid, at) ==
    [store EXCEPT ![sid] = IF @.present THEN @
                           ELSE [present |-> TRUE, created_at |-> at]]

\* with store_lock: ... around one access of data_store.
WithStoreLock(access) == <<"acquire store_lock", access, "release store_lock">>

\* with tasks_lock: ... around one access of classification_tasks.
WithTasksLock(access) == <<"acquire tasks_lock", access, "release tasks_lock">>

CleanupOldSessions == WithStoreLock("sweep")

\* A mutant of StoreData: the sweep is called inside the with block of the
\* write.
StoreData_SweepUnderLock ==
    <<"acquire store_lock">> \o CleanupOldSessions
        \o <<"write", "release store_lock">>

\* store_data: the sweep, then the write.
StoreData == CleanupOldSessions \o WithStoreLock("write")

\* A mutant of GetData: the store is read with no lock taken.
GetData_Unlocked == <<"read">>

\* get_data
GetData == WithStoreLock("read")

\* A worker's write of 'parent_mapping' or 'classified_collections'.
WorkerStore == WithStoreLock("write")

UpdateTask == WithTasksLock("task write")

ReadTask == WithTasksLock("task read")

\* requests.get / post / put, a classifier call; time.sleep.
NetworkCall == <<"request">>
Sleep == <<"sleep">>

\* The calls a request handler makes, and those a worker thread makes.
CallsOf(p) ==
    IF p = "handler" THEN {StoreData, GetData, ReadTask, NetworkCall, Sleep}
    ELSE {WorkerStore, UpdateTask, NetworkCall, Sleep}

NotStore ==
    UNCHANGED <<sessVars, fetchVars, clsVars, submitVars, syncVars, guiVars,
                taskVars, ingestVars, passVars, detailVars>>

\* Thread p goes on to its next step.
Advance(p, was_sweep) ==
    running' = [running EXCEPT ![p].todo = Tail(@), ![p].swept = was_sweep]

\* A thread starts a call, for the session of its request (a worker: of the
\* request that started it).
ThreadCall(p) ==
    /\ running[p].todo = <<>>
    /\ \E call \in CallsOf(p), sid \in SessionIds :
          running' = [running EXCEPT ![p] = [todo |-> call, sid |-> sid,
                                           swept |-> FALSE]]
    /\ UNCHANGED <<data_store, clock, store_lock, tasks_lock, swept>>
    /\ NotStore

\* Lock.__enter__: the thread waits until the lock is free.
ThreadAcquire(p) ==
    /\ running[p].todo # <<>>
    /\ \/ /\ Head(running[p].todo) = "acquire store_lock"
          /\ store_lock = "free"
          /\ store_lock' = p
          /\ UNCHANGED tasks_lock
       \/ /\ Head(running[p].todo) = "acquire tasks_lock"
          /\ tasks_lock = "free"
          /\ tasks_lock' = p
          /\ UNCHANGED store_lock
    /\ Advance(p, FALSE)
    /\ UNCHANGED <<data_store, clock, swept>>
    /\ NotStore

\* Lock.__exit__
ThreadRelease(p) ==
    /\ running[p].todo # <<>>
    /\ \/ /\ Head(running[p].todo) = "release store_lock"
          /\ store_lock' = "free"
          /\ UNCHANGED tasks_lock
       \/ /\ Head(running[p].todo) = "release tasks_lock"
          /\ tasks_lock' = "free"
          /\ UNCHANGED store_lock
    /\ Advance(p, FALSE)
    /\ UNCHANGED <<data_store, clock, swept>>
    /\ NotStore

\* The body of cleanup_old_sessions.
ThreadSweep(p) ==
    /\ running[p].todo # <<>>
    /\ Head(running[p].todo) = "sweep"
    /\ data_store' = cleanup_old_sessions(data_store, clock)
    /\ swept' = {sid \in SessionIds :
                    data_store[sid].present /\
                    ~cleanup_old_sessions(data_store, clock)[sid].present}
    /\ Advance(p, TRUE)
    /\ UNCHANGED <<clock, store_lock, tasks_lock>>
    /\ NotStore

\* The body of store_data, or a worker's write.
ThreadWrite(p) ==
    /\ running[p].todo # <<>>
    /\ Head(running[p].todo) = "write"
    /\ data_store' = WriteSession(data_store, running[p].sid, clock)
    /\ Advance(p, FALSE)
    /\ UNCHANGED <<clock, store_lock, tasks_lock, swept>>
    /\ NotStore

\* The body of get_data, of update_task_progress or of get_task_status.
ThreadAccess(p) ==
    /\ running[p].todo # <<>>
    /\ Head(running[p].todo) \in {"read", "task write", "task read"}
    /\ Advance(p, FALSE)
    /\ UNCHANGED <<data_store, clock, store_lock, tasks_lock, swept>>
    /\ NotStore

\* A network call or a sleep.
ThreadOutside(p) ==
    /\ running[p].todo # <<>>
    /\ Head(running[p].todo) \in {"request", "sleep"}
    /\ Advance(p, FALSE)
    /\ UNCHANGED <<data_store, clock, store_lock, tasks_lock, swept>>
    /\ NotStore

\* Time passes.
Tick ==
    /\ \/ /\ clock % TTL < MaxSeconds
          /\ clock' = clock + 1
       \/ /\ clock + TTL <= MaxDays * TTL + MaxSeconds
          /\ clock' = clock + TTL
    /\ UNCHANGED <<data_store, store_lock, tasks_lock, running, swept>>
    /\ NotStore

NextStore ==
    \/ \E p \in Threads : ThreadCall(p)
    \/ \E p \in Threads : ThreadAcquire(p)
    \/ \E p \in Threads : ThreadRelease(p)
    \/ \E p \in Threads : ThreadSweep(p)
    \/ \E p \in Threads : ThreadWrite(p)
    \/ \E p \in Threads : ThreadAccess(p)
    \/ \E p \in Threads : ThreadOutside(p)
    \/ Tick

SpecStore == Init /\ [][NextStore]_vars

\* ------------------------------------------------------------ the tag filter
\* Strings of the tag filter are sequences of characters.

TagChars == {"a", "A", "b", " ", ","}

\* Longest tags field of a product and longest text of the tag input.
MaxTagLen == 3
MaxFilterLen == 2

RECURSIVE SeqsUpTo(_, _)
\* The sequences over chars of length at most n.
SeqsUpTo(chars, n) ==
    IF n = 0 THEN {<<>>}
    ELSE LET shorter == SeqsUpTo(chars, n - 1)
         IN  shorter \cup {Append(s, c) : s \in shorter, c \in chars}

\* str.lower()
LowerStr(s) == [i \in 1..Len(s) |-> Lower(s[i])]

RECURSIVE LStrip(_)
LStrip(s) == IF s # <<>> /\ Head(s) = " " THEN LStrip(Tail(s)) ELSE s

RECURSIVE RStrip(_)
RStrip(s) ==
    IF s # <<>> /\ s[Len(s)] = " " THEN RStrip(SubSeq(s, 1, Len(s) - 1))
    ELSE s

\* str.strip()
Strip(s) == RStrip(LStrip(s))

RECURSIVE SplitFrom(_, _)
\* str.split(","), token the characters read since the last comma: a string
\* with n commas gives n + 1 tokens, the empty string one empty token.
SplitFrom(s, token) ==
    IF s = <<>> THEN <<token>>
    ELSE IF Head(s) = "," THEN <<token>> \o SplitFrom(Tail(s), <<>>)
    ELSE SplitFrom(Tail(s), Append(token, Head(s)))

Split(s) == SplitFrom(s, <<>>)

\* [t.strip().lower() for t in tags.split(",")]
ProductTags(text) ==
    LET tokens == Split(text)
    IN  {LowerStr(Strip(tokens[i])) : i \in 1..Len(tokens)}

\* The tags field of a product of the source: a string, or no such key.
TagFields ==
    {NoTags} \cup {[has |-> TRUE, text |-> s] :
                      s \in SeqsUpTo(TagChars, MaxTagLen)}

\* The text of the tag input.
TagInputs == SeqsUpTo(TagChars \ {","}, MaxFilterLen)

\* app.py: if p.get("tags"): ... if tag.lower() in product_tags
MatchesApp(tags, tag) ==
    /\ tags.has
    /\ tags.text # <<>>
    /\ LowerStr(tag) \in ProductTags(tags.text)

\* test.py: tag.lower() in [... for t in p.get("tags", "").split(",")]
MatchesGui(tags, tag) ==
    LowerStr(tag) \in ProductTags(IF tags.has THEN tags.text ELSE <<>>)

NotTags ==
    UNCHANGED <<sessVars, fetchVars, clsVars, submitVars, syncVars, guiVars,
                taskVars, storeVars, ingest, passVars, detailVars>>

\* fetch_products of app.py meets a product: the tag of the request body is
\* stripped, and an empty one refused.
TagFilterApp ==
    /\ tagcheck.pc = "product"
    /\ tagcheck.variant = "app"
    /\ Strip(tagcheck.input) # <<>>
    /\ tagcheck' = [tagcheck EXCEPT
                       !.pc = "done",
                       !.included = MatchesApp(tagcheck.tags,
                                               Strip(tagcheck.input))]
    /\ NotTags

\* if not shop_url or not access_token or not tag: 400
TagFilterRefused ==
    /\ tagcheck.pc = "product"
    /\ tagcheck.variant = "app"
    /\ Strip(tagcheck.input) = <<>>
    /\ tagcheck' = [tagcheck EXCEPT !.pc = "refused"]
    /\ NotTags

\* fetch_products of test.py meets a product: the tag input is stripped.
TagFilterGui ==
    /\ tagcheck.pc = "product"
    /\ tagcheck.variant = "gui"
    /\ tagcheck' = [tagcheck EXCEPT
                       !.pc = "done",
                       !.included = MatchesGui(tagcheck.tags,
                                               Strip(tagcheck.input))]
    /\ NotTags

InitTags ==
    /\ InitFront
    /\ SyncIdle
    /\ GuiIdle
    /\ TasksIdle
    /\ StoreIdle
    /\ IngestIdle
    /\ PassIdle
    /\ DetailIdle
    /\ \E variant \in {"app", "gui"}, tags \in TagFields, input \in TagInputs :
          tagcheck = [pc |-> "product", variant |-> variant, tags |-> tags,
                      input |-> input, included |-> FALSE]

NextTags == TagFilterApp \/ TagFilterRefused \/ TagFilterGui

SpecTags == InitTags /\ [][NextTags]_vars

\* ------------------------------------------------------ ingestion: the pages
\* fetch_products of app.py against a source that serves pages of two
\* products each.

\* max_pages of fetch_products.
max_pages == 100

\* Most pages of a short source.
MaxPages == 2

\* The tags fields the products of a source carry, and the tags asked for.
TagSamples ==
    {[has |-> TRUE, text |-> <<"a">>],
     [has |-> TRUE, text |-> <<"b", ",", " ", "A">>],
     [has |-> TRUE, text |-> <<"a", "b">>]}
TagsAsked == {<<"a">>, <<"b">>}

\* A source: pages 1..pages hold two products each (page i the products
\* 2i - 1 and 2i, with the tags fields of first and second), every page but
\* the last carries a next link, the last one if last_next says so, and every
\* later page is empty.  An endless source has no last page.
Sources ==
    [pages : (0..MaxPages) \cup {max_pages, max_pages + 1},
     last_next : BOOLEAN, endless : BOOLEAN,
     first : TagSamples, second : TagSamples]

\* The products of page i in source order.
PageProducts(source, i) ==
    IF source.endless \/ i <= source.pages
    THEN <<[id |-> 2 * i - 1, tags |-> source.first],
           [id |-> 2 * i, tags |-> source.second]>>
    ELSE <<>>

\* Whether the Link header of page i holds rel="next".
HasNext(source, i) ==
    \/ source.endless
    \/ i < source.pages
    \/ i = source.pages /\ source.last_next

\* The products of a page the loop appends: those whose tags match.
Matched(products, tag) ==
    LET hits == SelectSeq(products, LAMBDA p : MatchesApp(p.tags, tag))
    IN  [i \in 1..Len(hits) |-> hits[i].id]

\* A mutant of Gathered: the matches of a page are put before the earlier ones.
Gathered_Before(all_products, matched) == matched \o all_products

\* all_products.append(...) for every match of the page
Gathered(all_products, matched) == all_products \o matched

\* A mutant of MorePages: the bound is inclusive.
MorePages_Inclusive(page_count) == page_count <= max_pages

\* while page_count < max_pages
MorePages(page_count) == page_count < max_pages

NotIngest ==
    UNCHANGED <<sessVars, fetchVars, clsVars, submitVars, syncVars, guiVars,
                taskVars, storeVars, tagcheck, passVars, detailVars>>

\* The loop is left: store_data('products', all_products) and the success
\* answer.
IngestSuccess(rec) == [rec EXCEPT !.pc = "done", !.outcome = "success"]

\* The loop's test before a request.
IngestLoop(rec) ==
    IF MorePages(rec.page_count) THEN [rec EXCEPT !.pc = "request"]
    ELSE IngestSuccess(rec)

\* One pass of the loop body: the request of the page at the cursor and what
\* follows its answer.
IngestPage ==
    /\ ingest.pc = "request"
    /\ LET rec      == [ingest EXCEPT
                           !.requests = @ + 1,
                           !.in_order = @ /\ ingest.cursor = ingest.requests + 1]
           products == PageProducts(rec.source, rec.cursor)
           gathered == [rec EXCEPT
                           !.all_products =
                               Gathered(@, Matched(products, rec.tag))]
       IN  ingest' =
              IF products = <<>> THEN IngestSuccess(rec)
              ELSE IF ~HasNext(rec.source, rec.cursor)
              THEN IngestSuccess(gathered)
              ELSE IngestLoop([gathered EXCEPT !.cursor = @ + 1,
                                               !.page_count = @ + 1])
    /\ NotIngest

\* The request of a page fails: a status other than 200, a timeout or
\* another exception.  The handler answers 400 and stores no products.
IngestFail ==
    /\ ingest.pc = "request"
    /\ ingest' = [ingest EXCEPT !.pc = "done", !.outcome = "error",
                                !.requests = @ + 1]
    /\ NotIngest

InitIngest ==
    /\ InitFront
    /\ SyncIdle
    /\ GuiIdle
    /\ TasksIdle
    /\ StoreIdle
    /\ TagsIdle
    /\ PassIdle
    /\ DetailIdle
    /\ \E source \in Sources, tag \in TagsAsked :
          /\ source.endless => source.pages = 0 /\ ~source.last_next
          /\ ingest = IngestLoop([NoIngest EXCEPT !.source = source,
                                                  !.tag = tag, !.cursor = 1])

NextIngest == IngestPage \/ IngestFail

SpecIngest == InitIngest /\ [][NextIngest]_vars

\* ------------------------------------------------- the deduplication pass
\* The pass of run_shopify_update_background and update_shopify_stream over
\* the buckets they are given, and the final check of classify_products over
\* collections_dict.

\* Longest index list of a bucket given to the pass; the indices are
\* 1..MaxBucketLen.
MaxBucketLen == 2

\* The names of the buckets given to the pass, in iteration order.
BucketNames == <<"a", "b", "c">>

\* The dicts given to the pass.
BucketDicts ==
    LET lists == UNION {[1..n -> 1..MaxBucketLen] : n \in 0..MaxBucketLen}
    IN  {[i \in 1..Len(BucketNames) |-> [name |-> BucketNames[i], ids |-> f[i]]] :
            f \in [1..Len(BucketNames) -> lists]}

NotPass ==
    UNCHANGED <<sessVars, fetchVars, clsVars, submitVars, syncVars, guiVars,
                taskVars, storeVars, ingestVars, detailVars>>

\* The pass of the sync runs, with its count of the duplicates.
DedupSync ==
    /\ dedup.pc = "start"
    /\ dedup.variant = "sync"
    /\ dedup' = [dedup EXCEPT
                    !.pc = "done",
                    !.clean = Deduplicate(dedup.input),
                    !.duplicates_removed = DuplicatesRemoved(dedup.input)]
    /\ NotPass

\* The final check of classify_products, after the empty buckets were dropped.
DedupClassify ==
    /\ dedup.pc = "start"
    /\ dedup.variant = "classify"
    /\ dedup' = [dedup EXCEPT
                    !.pc = "done",
                    !.clean = Deduplicate(RemoveEmpty(dedup.input))]
    /\ NotPass

InitDedup ==
    /\ InitFront
    /\ SyncIdle
    /\ GuiIdle
    /\ TasksIdle
    /\ StoreIdle
    /\ IngestIdle
    /\ TagsIdle
    /\ DetailIdle
    /\ \E variant \in {"sync", "classify"}, input \in BucketDicts :
          dedup = [NoPass EXCEPT !.pc = "start", !.variant = variant,
                                 !.input = input]

NextDedup == DedupSync \/ DedupClassify

SpecDedup == InitDedup /\ [][NextDedup]_vars

\* ------------------------------------------ one call of a sink function

\* retry_delay of update_product_metadata, in seconds.
retry_delay == 1

\* The factor of time.sleep(2 * (attempt + 1)) in the handlers of
\* create_or_get_smart_collection, in seconds.
collection_retry_delay == 2

SinkFunctions ==
    {"create_or_get_smart_collection", "update_product_metadata"}

\* The seconds the retry sleep of a sink function is a multiple of.
BaseDelay(fn) ==
    IF fn = "create_or_get_smart_collection" THEN collection_retry_delay
    ELSE retry_delay

\* A mutant of RetryWait: the sleep does not grow with the attempt.
RetryWait_Constant(fn, attempt) == 2 * BaseDelay(fn)

\* time.sleep(retry_delay * (attempt + 1)) and time.sleep(2 * (attempt + 1)),
\* in half seconds.
RetryWait(fn, attempt) == 2 * BaseDelay(fn) * (attempt + 1)

\* A request of the call, with the answer it got.
RequestEvent(method, attempt, answer) ==
    [op |-> method, attempt |-> attempt, answer |-> answer,
     half_seconds |-> 0]

\* A time.sleep of the call: why it sleeps and for how many half seconds.
SleepEvent(why, attempt, half_seconds) ==
    [op |-> "sleep", attempt |-> attempt, answer |-> why,
     half_seconds |-> half_seconds]

\* The first statement of an attempt: the search request of
\* create_or_get_smart_collection, the time.sleep(0.5) of
\* update_product_metadata.
FirstPhase(fn) ==
    IF fn = "create_or_get_smart_collection" THEN "search" ELSE "pace_get"

\* return None, return False, or the return of an id or of True.
CallReturns(c, value) == [c EXCEPT !.phase = "returned", !.value = value]

\* continue: the next attempt of for attempt in range(max_retries); after
\* the last the loop is over and the function returns None or False.
NextAttempt(c) ==
    IF c.attempt < max_retries - 1
    THEN [c EXCEPT !.attempt = @ + 1, !.phase = FirstPhase(c.fn)]
    ELSE CallReturns(c, "failed")

\* The handlers of Timeout and of RequestException (in
\* create_or_get_smart_collection of Exception), and the tests of an
\* unexpected body: with an attempt left sleep and continue, else return.
RetryHandler(c) ==
    IF c.attempt < max_retries - 1
    THEN NextAttempt([c EXCEPT !.trace =
             Append(@, SleepEvent("retry", c.attempt,
                                  RetryWait(c.fn, c.attempt)))])
    ELSE CallReturns(c, "failed")

\* A 429 answer: sleep for Retry-After and continue. The ValueError of int()
\* goes to except Exception: the retry handler of
\* create_or_get_smart_collection, return False in update_product_metadata.
CallRateLimited(c, header) ==
    LET parsed == ParseRetryAfter(header)
    IN  IF parsed.ok
        THEN NextAttempt([c EXCEPT !.trace =
                 Append(@, SleepEvent("rate_limit", c.attempt,
                                      2 * parsed.value))])
        ELSE IF c.fn = "create_or_get_smart_collection"
        THEN RetryHandler(c)
        ELSE CallReturns(c, "failed")

\* A mutant of AfterRead: the write request follows the read at once.
AfterRead_NoPause(c) ==
    [c EXCEPT !.phase = IF c.fn = "create_or_get_smart_collection"
                        THEN "create" ELSE "put"]

\* After the read request of an attempt was answered and nothing was found
\* to return: time.sleep(0.5), then the write request.
AfterRead(c) ==
    [c EXCEPT !.phase = IF c.fn = "create_or_get_smart_collection"
                        THEN "pace_create" ELSE "pace_put"]

\* The request a phase sends.
MethodOf(phase) ==
    CASE phase \in {"search", "get"} -> "GET"
      [] phase = "create" -> "POST"
      [] OTHER -> "PUT"

\* Timeout, ConnectionError, and the HTTPError of raise_for_status.
TransportFailures == {"timeout", "network", "http_error"}

\* What a request of the call can be answered.
CallAnswers(fn, phase) ==
    TransportFailures \cup RateLimitAnswers \cup
    (CASE phase = "search" -> {"ok", "found", "malformed"}
       [] phase = "create" -> {"created", "malformed", "errors_body"}
       [] OTHER -> {"ok", "exception"})

\* What a step of the call leaves alone.
NotSinkCall ==
    UNCHANGED <<sessVars, fetchVars, clsVars, submitVars, syncVars, guiVars,
                taskVars, storeVars, ingestVars, passVars, stream, fetch,
                rerun, poll>>

\* time.sleep(0.5) before a request.
SinkCallPace ==
    /\ sink_call.phase \in {"pace_get", "pace_put", "pace_create"}
    /\ sink_call' =
          [sink_call EXCEPT
              !.trace = Append(@, SleepEvent("pacing", sink_call.attempt, 1)),
              !.phase = CASE sink_call.phase = "pace_get" -> "get"
                          [] sink_call.phase = "pace_put" -> "put"
                          [] OTHER -> "create"]
    /\ NotSinkCall

\* A request of the call and what the function does with its answer, up to
\* its next request or its return.
SinkCallRequest ==
    /\ sink_call.phase \in {"search", "create", "get", "put"}
    /\ \E answer \in CallAnswers(sink_call.fn, sink_call.phase) :
          LET c == [sink_call EXCEPT !.trace =
                       Append(@, RequestEvent(MethodOf(sink_call.phase),
                                              sink_call.attempt, answer))]
          IN  sink_call' =
                 CASE answer \in RateLimitAnswers ->
                          CallRateLimited(c, RetryAfter(answer))
                   [] answer \in {"found", "created"} -> CallReturns(c, "ok")
                   [] answer = "ok" ->
                          IF c.phase = "put" THEN CallReturns(c, "ok")
                          ELSE AfterRead(c)
                   [] answer = "exception" -> CallReturns(c, "failed")
                   [] OTHER -> RetryHandler(c)
    /\ NotSinkCall

\* A sink function has been called.
InitCalls ==
    /\ InitFront
    /\ SyncIdle
    /\ GuiIdle
    /\ TasksIdle
    /\ StoreIdle
    /\ IngestIdle
    /\ TagsIdle
    /\ PassIdle
    /\ stream = NoStream
    /\ fetch = NoFetch
    /\ rerun = NoRerun
    /\ poll = NoPoll
    /\ \E fn \in SinkFunctions :
          sink_call = [NoSinkCall EXCEPT !.fn = fn, !.phase = FirstPhase(fn)]

NextCalls == SinkCallPace \/ SinkCallRequest

SpecCalls == InitCalls /\ [][NextCalls]_vars

\* ------------------------------------------------------ one push stream

\* yield of one event, or of two in a row.
Emit(st, type) == [st EXCEPT !.events = Append(@, type)]

\* A mutant of AfterStreamError: the handler of the generation has no return.
AfterStreamError_NoReturn(st) == [st EXCEPT !.pc = "batches"]

\* return, after the error event of the handler of the generation.
AfterStreamError(st) == [st EXCEPT !.pc = "done"]

\* The generator has run to its end.
StreamOver(st) == [st EXCEPT !.pc = "done"]

\* What a step of the stream leaves alone.
NotStream ==
    UNCHANGED <<sessVars, fetchVars, clsVars, submitVars, syncVars, guiVars,
                taskVars, storeVars, ingestVars, passVars, sink_call, fetch,
                rerun, poll>>

\* One step of the generator of the stream.
StreamStep(st) ==
    /\ stream' = st
    /\ NotStream

\* classify_products_stream up to its start event: without products or
\* without OPENAI_API_KEY an error event and return.
StreamClassifyBegin ==
    /\ stream.kind = "classify"
    /\ stream.pc = "begin"
    /\ \E api_key \in BOOLEAN :
          StreamStep(IF stream.total = 0 \/ ~api_key
                     THEN StreamOver(Emit(stream, "error"))
                     ELSE [Emit(stream, "start") EXCEPT !.pc = "taxonomy"])

\* Step 1 of the stream: the collections the user gave, or the generation.
StreamTaxonomy ==
    /\ stream.pc = "taxonomy"
    /\ \E user_collections \in BOOLEAN :
          StreamStep([Emit(stream, "info") EXCEPT
                         !.pc = IF user_collections THEN "batches"
                                ELSE "generating"])

\* The generation returned: a hierarchy (which may be empty), or an
\* exception of the call or of the parse of its answer.
StreamGenerated ==
    /\ stream.pc = "generating"
    /\ \E answer \in {"hierarchy", "empty_hierarchy", "exception"} :
          StreamStep(IF answer = "exception"
                     THEN AfterStreamError(Emit(stream, "error"))
                     ELSE [Emit(stream, "info") EXCEPT
                              !.pc = "batches",
                              !.empty = (answer = "empty_hierarchy")])

\* The info event before the loop over the batches.
StreamBatches ==
    /\ stream.pc = "batches"
    /\ StreamStep([Emit(stream, "info") EXCEPT !.pc = "batch",
                                               !.batch_num = 0])

\* The head of the loop over the batches: batch_start, or the end of the
\* loop.
StreamBatch ==
    /\ stream.pc = "batch"
    /\ StreamStep(IF stream.batch_num < TotalBatches(stream.total)
                  THEN [Emit(stream, "batch_start") EXCEPT
                           !.pc = "product",
                           !.item = BatchStart(stream.batch_num)]
                  ELSE [stream EXCEPT !.pc = "store"])

\* One pass of the loop over the products of a batch: the progress event of
\* every tenth index and of the first of the batch, and the classifier call;
\* after the last index batch_complete. With no collection to choose from
\* max() raises and the outer handler emits the error event.
StreamProduct ==
    /\ stream.pc = "product"
    /\ LET told == IF \/ stream.item % 10 = 0
                      \/ stream.item = BatchStart(stream.batch_num)
                   THEN Emit(stream, "progress") ELSE stream
       IN  StreamStep(
              IF stream.item > BatchEnd(stream.batch_num, stream.total)
              THEN [Emit(stream, "batch_complete") EXCEPT
                       !.pc = "batch", !.batch_num = NextBatch(@)]
              ELSE IF stream.empty THEN StreamOver(Emit(told, "error"))
              ELSE [told EXCEPT !.item = @ + 1])

\* store_data('classified_collections', ...) and the complete event, the
\* last statement of the try block.
StreamStore ==
    /\ stream.pc = "store"
    /\ StreamStep(StreamOver(Emit(stream, "complete")))

\* update_shopify_stream up to its start event: an error event and return
\* when the probe fails, when the session holds no partition or no
\* credentials; the info event of the duplicates, start, and the info event
\* of step 1.
StreamSyncBegin ==
    /\ stream.kind = "sync"
    /\ stream.pc = "begin"
    /\ \E status \in PreflightStatuses, credentials \in BOOLEAN,
          duplicates_removed \in BOOLEAN :
          StreamStep(
             IF \/ PreflightVerdict(status) # "ok"
                \/ stream.total_collections = 0
                \/ ~credentials
             THEN StreamOver(Emit(stream, "error"))
             ELSE [Emit(Emit(IF duplicates_removed
                             THEN Emit(stream, "info") ELSE stream,
                             "start"), "info")
                      EXCEPT !.pc = "collection", !.item = 1])

\* One pass of the loop over the collections: collection_start, the call of
\* create_or_get_smart_collection (which raises nothing) and the event of
\* what it returned; after the last pass the info event of step 2.
StreamCollection ==
    /\ stream.pc = "collection"
    /\ \E collection_id \in {"id", "None"} :
          LET told == Emit(Emit(stream, "collection_start"),
                           IF collection_id = "id" THEN "collection_created"
                           ELSE "collection_error")
          IN  StreamStep(
                 IF stream.item < stream.total_collections
                 THEN [told EXCEPT !.item = @ + 1]
                 ELSE [Emit(told, "info") EXCEPT
                          !.pc = IF stream.total = 0 THEN "finish"
                                 ELSE "update",
                          !.item = 1])

\* One pass of the loop over the products whose index is in range: the event
\* of what update_product_metadata returned.
StreamUpdate ==
    /\ stream.pc = "update"
    /\ \E updated \in BOOLEAN :
          LET told == Emit(stream, IF updated THEN "product_updated"
                                   ELSE "product_error")
          IN  StreamStep(IF stream.item < stream.total
                         THEN [told EXCEPT !.item = @ + 1]
                         ELSE [told EXCEPT !.pc = "finish"])

\* The complete event, the last statement of the try block.
StreamFinish ==
    /\ stream.pc = "finish"
    /\ StreamStep(StreamOver(Emit(stream, "complete")))

\* The client goes away while the generator waits at a yield: the generator
\* is closed (GeneratorExit is no Exception) and emits nothing more.
StreamClose ==
    /\ stream.pc \notin {"none", "begin", "done", "closed"}
    /\ StreamStep([stream EXCEPT !.pc = "closed"])

\* A stream has been opened: a classification of the products of the
\* session, or a sync of its partition (the indices of its buckets that are
\* indices of a product counted in total).
InitStream ==
    /\ InitFront
    /\ SyncIdle
    /\ GuiIdle
    /\ TasksIdle
    /\ StoreIdle
    /\ IngestIdle
    /\ TagsIdle
    /\ PassIdle
    /\ sink_call = NoSinkCall
    /\ fetch = NoFetch
    /\ rerun = NoRerun
    /\ poll = NoPoll
    /\ \/ \E total \in 0..MaxProducts :
             stream = [NoStream EXCEPT !.kind = "classify", !.pc = "begin",
                                       !.total = total]
       \/ \E total_collections \in 0..MaxProducts, total \in 0..MaxProducts :
             /\ total_collections = 0 => total = 0
             /\ stream = [NoStream EXCEPT
                             !.kind = "sync", !.pc = "begin",
                             !.total = total,
                             !.total_collections = total_collections]

NextStream ==
    \/ StreamClassifyBegin
    \/ StreamTaxonomy
    \/ StreamGenerated
    \/ StreamBatches
    \/ StreamBatch
    \/ StreamProduct
    \/ StreamStore
    \/ StreamSyncBegin
    \/ StreamCollection
    \/ StreamUpdate
    \/ StreamFinish
    \/ StreamClose

SpecStream == InitStream /\ [][NextStream]_vars

\* ------------------------------------- one fetch-products request

\* shop_url, access_token and tag of a request body, as sent: a field may be
\* missing or blank, and the shop may be given as a URL.
BodyShopUrls == {"", "shop1", "https://shop2/"}
BodyTokens == {"", " ", "token1", "token2"}
BodyTags == {"", "x"}

\* .strip() of a field of the body.
StripField(field) == IF field = " " THEN "" ELSE field

\* shop_url.replace('https://', '').replace('http://', '').rstrip('/')
CleanShopUrl(shop_url) ==
    IF shop_url = "https://shop2/" THEN "shop2" ELSE shop_url

\* What a session holds when the request comes in: nothing, or the
\* credentials, the products and the partition of an earlier run of the
\* pipeline on shop1.
SessionsBefore ==
    {EmptySession,
     [shop_url |-> "shop1", access_token |-> "token1",
      products |-> <<1, 2>>,
      classified_collections |->
          <<[name |-> "a", ids |-> <<1>>], [name |-> "b", ids |-> <<2>>]>>]}

\* The handler returns a 400 answer.
FetchFails(f) == [f EXCEPT !.pc = "done", !.outcome = "failed"]

\* What a step of the request leaves alone.
NotFetch ==
    UNCHANGED <<sessVars, fetchVars, clsVars, submitVars, syncVars, guiVars,
                taskVars, storeVars, ingestVars, passVars, sink_call, stream,
                rerun, poll>>

\* store_data('shop_url', shop_url); store_data('access_token', access_token)
StoreCredentials(session, shop_url, access_token) ==
    [session EXCEPT !.shop_url = shop_url, !.access_token = access_token]

\* fetch_products up to its first page request: 400 when a field is missing
\* or blank; else the credentials are stored.
FetchValidate ==
    /\ fetch.pc = "begin"
    /\ LET shop_url     == StripField(fetch.body.shop_url)
           access_token == StripField(fetch.body.access_token)
           tag          == StripField(fetch.body.tag)
       IN  fetch' =
              IF shop_url = "" \/ access_token = "" \/ tag = ""
              THEN FetchFails(fetch)
              ELSE [fetch EXCEPT
                       !.pc = "paging",
                       !.session = StoreCredentials(@, CleanShopUrl(shop_url),
                                                    access_token)]
    /\ NotFetch

\* One pass of the pagination loop: the page request fails (a status other
\* than 200, a timeout, a network error: a 400 answer), or the page ends
\* the loop, or it names a next page.
FetchPage ==
    /\ fetch.pc = "paging"
    /\ \E answer \in {"non_200", "timeout", "network_error", "last", "next"} :
          fetch' =
             CASE answer \in {"non_200", "timeout", "network_error"} ->
                      FetchFails(fetch)
               [] answer = "next" /\ fetch.page_count + 1 < MaxPages ->
                      [fetch EXCEPT !.page_count = @ + 1]
               [] OTHER -> [fetch EXCEPT !.pc = "store"]
    /\ NotFetch

\* The loop is left: store_data('products', all_products) and the success
\* answer.
FetchStoreProducts ==
    /\ fetch.pc = "store"
    /\ \E all_products \in FetchResults :
          fetch' = [fetch EXCEPT !.pc = "done", !.outcome = "success",
                                 !.session.products = all_products]
    /\ NotFetch

\* A fetch-products request has come in.
InitFetch ==
    /\ InitFront
    /\ SyncIdle
    /\ GuiIdle
    /\ TasksIdle
    /\ StoreIdle
    /\ IngestIdle
    /\ TagsIdle
    /\ PassIdle
    /\ sink_call = NoSinkCall
    /\ stream = NoStream
    /\ rerun = NoRerun
    /\ poll = NoPoll
    /\ \E shop_url \in BodyShopUrls, access_token \in BodyTokens,
          tag \in BodyTags, session \in SessionsBefore :
          fetch = [NoFetch EXCEPT
                      !.pc = "begin",
                      !.body = [shop_url |-> shop_url,
                                access_token |-> access_token, tag |-> tag],
                      !.session = session, !.before = session]

NextFetch == FetchValidate \/ FetchPage \/ FetchStoreProducts

SpecFetch == InitFetch /\ [][NextFetch]_vars

\* ----------------------------------- a run of the pipeline and a fetch again

\* The tags fields of the products of the sink before the run, the tag the
\* fetches ask for, and the names of the taxonomy, in its order.
RerunTags == {<<"a">>, <<"b">>, <<"b", ",", "a">>}
RerunFilters == {<<"a">>, <<"b">>}
RerunNames == << <<"a">>, <<"A">>, <<"b">> >>

\* all_products of a fetch: the ids of the products of the sink whose tags
\* hold the tag asked for, in the order of the source.
FetchedIds(sink_tags, tag) ==
    SelectSeq(Ascending(Len(sink_tags)),
              LAMBDA p : MatchesApp([has |-> TRUE, text |-> sink_tags[p]],
                                    tag))

\* The partition of a classification that gave index i the name labels[i]:
\* the buckets in the order of the taxonomy, the empty ones removed.
PartitionOf(labels) ==
    RemoveEmpty([n \in 1..Len(RerunNames) |->
                    [name |-> RerunNames[n],
                     ids  |-> SelectSeq(Ascending(Len(labels)),
                                        LAMBDA i : labels[i] = RerunNames[n])]])

\* What a step of the run leaves alone.
NotRerun ==
    UNCHANGED <<sessVars, fetchVars, clsVars, submitVars, syncVars, guiVars,
                taskVars, storeVars, ingestVars, passVars, sink_call, stream,
                fetch, poll>>

\* fetch_products: the products that carry the tag are stored.
RerunFetch ==
    /\ rerun.pc = "fetch"
    /\ rerun' = [rerun EXCEPT
                    !.pc = "classify",
                    !.products = FetchedIds(rerun.sink_tags, rerun.tag)]
    /\ NotRerun

\* A classification of the stored products, and the start of the product
\* loop of the sync over its partition. Without products there is nothing to
\* classify and no sync.
RerunClassify ==
    /\ rerun.pc = "classify"
    /\ \E labels \in [1..Len(rerun.products) -> Range(RerunNames)] :
          rerun' = [rerun EXCEPT
                       !.pc = IF rerun.products = <<>> THEN "done"
                              ELSE "update",
                       !.plan = PlanOf(PartitionOf(labels),
                                       Len(rerun.products)),
                       !.item = 1]
    /\ NotRerun

\* update_product_metadata of one product returns True: the sink holds the
\* tags of the payload.
RerunUpdate ==
    /\ rerun.pc = "update"
    /\ LET name    == rerun.plan[rerun.item].name
           product == rerun.products[rerun.plan[rerun.item].idx]
           payload == UpdatePayload(product, name,
                          [id |-> product, tags |-> rerun.sink_tags[product],
                           product_type |-> OtherType])
       IN  rerun' = [rerun EXCEPT
                        !.sink_tags[payload.id] = payload.tags,
                        !.item = @ + 1,
                        !.pc = IF rerun.item < Len(rerun.plan) THEN "update"
                               ELSE "refetch"]
    /\ NotRerun

\* fetch_products again, with the same tag.
RerunRefetch ==
    /\ rerun.pc = "refetch"
    /\ rerun' = [rerun EXCEPT
                    !.pc = "done",
                    !.refetched = FetchedIds(rerun.sink_tags, rerun.tag)]
    /\ NotRerun

\* The sink holds MaxProducts products with their tags; a tag is asked for.
InitRerun ==
    /\ InitFront
    /\ SyncIdle
    /\ GuiIdle
    /\ TasksIdle
    /\ StoreIdle
    /\ IngestIdle
    /\ TagsIdle
    /\ PassIdle
    /\ sink_call = NoSinkCall
    /\ stream = NoStream
    /\ fetch = NoFetch
    /\ poll = NoPoll
    /\ \E sink_tags \in [1..MaxProducts -> RerunTags], tag \in RerunFilters :
          rerun = [NoRerun EXCEPT !.pc = "fetch", !.tag = tag,
                                  !.sink_tags = sink_tags]

NextRerun == RerunFetch \/ RerunClassify \/ RerunUpdate \/ RerunRefetch

SpecRerun == InitRerun /\ [][NextRerun]_vars

\* ------------------------------------- a status poll beside the worker

\* One call of update_task_progress(task_id, status, progress, message, data).
ProgressCall(status, progress, message, data) ==
    [status |-> status, progress |-> progress, message |-> message,
     data |-> data]

\* The calls of update_task_progress a worker makes, in program order: a
\* background classification with the collections of the user, a background
\* sync, and a classification without OPENAI_API_KEY.
WorkerCalls(kind) ==
    CASE kind = "classify" ->
             <<ProgressCall("running", 0, "Starting classification...",
                            "None"),
               ProgressCall("running", 5, "Using custom collections", "None"),
               ProgressCall("running", 10, "Processing", "None"),
               ProgressCall("complete", 100, "Classification complete!",
                            "collections")>>
      [] kind = "update" ->
             <<ProgressCall("running", 0, "Starting update...", "None"),
               ProgressCall("running", 10, "Step 1/2", "None"),
               ProgressCall("running", 40, "Step 2/2", "None"),
               ProgressCall("complete", 100, "Smart Collections created!",
                            "success_count")>>
      [] OTHER ->
             <<ProgressCall("running", 0, "Starting classification...",
                            "None"),
               ProgressCall("error", 0, "OpenAI API key not configured",
                            "None")>>

PollKinds == {"classify", "update", "no_api_key"}

\* What a step of the poll or of its worker leaves alone.
NotPoll ==
    UNCHANGED <<sessVars, fetchVars, clsVars, submitVars, syncVars, guiVars,
                taskVars, storeVars, ingestVars, passVars, sink_call, stream,
                fetch, rerun>>

\* The worker's next call of update_task_progress: under tasks_lock the dict
\* of the task is made when it is not there, and updated in place.
PollWorkerUpdate ==
    /\ poll.pc # "none"
    /\ poll.calls < Len(WorkerCalls(poll.kind))
    /\ poll' = [poll EXCEPT
                   !.calls = @ + 1,
                   !.present = TRUE,
                   !.task = WorkerCalls(poll.kind)[poll.calls + 1]]
    /\ NotPoll

\* get_task_status returned the dict of the task itself; tasks_lock is
\* released, and the handler goes on to read the fields.
AfterGet(p) == [p EXCEPT !.pc = "status"]

\* The status handler up to the return of get_task_status: 404 when there
\* is no dict for the task id.
PollGet ==
    /\ poll.pc = "get"
    /\ poll' = IF poll.present THEN AfterGet(poll)
               ELSE [poll EXCEPT !.pc = "not_found"]
    /\ NotPoll

\* The handler reads one field of the dict, in the order of the answer:
\* task['status'], task['progress'], task['message'], task.get('data').
PollRead ==
    /\ poll.pc \in {"status", "progress", "message", "data"}
    /\ poll' =
          CASE poll.pc = "status" ->
                   [poll EXCEPT !.reply.status = poll.task.status,
                                !.pc = "progress"]
            [] poll.pc = "progress" ->
                   [poll EXCEPT !.reply.progress = poll.task.progress,
                                !.pc = "message"]
            [] poll.pc = "message" ->
                   [poll EXCEPT !.reply.message = poll.task.message,
                                !.pc = "data"]
            [] OTHER ->
                   [poll EXCEPT !.reply.data = poll.task.data,
                                !.pc = "replied"]
    /\ NotPoll

\* A worker has been started and its task id is polled.
InitPoll ==
    /\ InitFront
    /\ SyncIdle
    /\ GuiIdle
    /\ TasksIdle
    /\ StoreIdle
    /\ IngestIdle
    /\ TagsIdle
    /\ PassIdle
    /\ sink_call = NoSinkCall
    /\ stream = NoStream
    /\ fetch = NoFetch
    /\ rerun = NoRerun
    /\ \E kind \in PollKinds :
          poll = [NoPoll EXCEPT !.pc = "get", !.kind = kind]

NextPoll == PollWorkerUpdate \/ PollGet \/ PollRead

SpecPoll == InitPoll /\ [][NextPoll]_vars

\* ------------------------------------------------------------------ claims

\* The buckets of d are pairwise disjoint, hold no index twice, and together
\* hold exactly 1..n.
IsPartitionOf(d, n) ==
    /\ \A i, j \in 1..Len(d) :
          i # j => Range(d[i].ids) \cap Range(d[j].ids) = {}
    /\ \A i \in 1..Len(d) : Cardinality(Range(d[i].ids)) = Len(d[i].ids)
    /\ DictIndices(d) = 1..n

\* C1: whatever the classifier answered per call (a taxonomy label, another
\* label, an exception), the partition a classification run stores in the
\* session and the one it returns have pairwise disjoint buckets whose union
\* is exactly 1..N, N the length of the product list that was classified.
C1_PartitionComplete ==
    /\ store_classified_from # <<>> =>
          IsPartitionOf(store_classified, Len(store_classified_from))
    /\ c_outcome = "success" =>
          IsPartitionOf(c_result.collections, Len(c_products))

\* C1 witness: a background run over two products ended in success and
\* stored a partition of two buckets.
C1_Witness ==
    /\ c_outcome = "success"
    /\ c_mode = "background"
    /\ Len(c_products) = 2
    /\ store_classified_from = c_products
    /\ Len(store_classified) = 2

\* C2 (as claimed): the stored partition was computed from the product list
\* now stored in the session, and a sync worker is handed a partition and the
\* product list it was computed from.
C2_PartitionOfStoredProducts ==
    /\ store_classified # <<>> => store_classified_from = store_products
    /\ w_started => w_from = w_products

C4_SuccessCoversAllProducts ==
    c_outcome = "success" =>
        /\ SumLen(c_result.collections) = Len(c_products)
        /\ Cardinality(DictIndices(c_result.collections)) = Len(c_products)
        /\ c_result.total_products = Len(c_products)

\* C4 witness: the synchronous handler returned success for two products
\* after an answer outside the taxonomy.
C4_Witness ==
    /\ c_mode = "sync"
    /\ c_outcome = "success"
    /\ c_last.kind = "nonmember"
    /\ c_result.total_products = 2

\* C15: in every mode a failure of the generation of the taxonomy makes the
\* run go on with the default taxonomy: the step that settles the
\* collections of a run never ends the run with an error.
C15_GenerationFailureUsesDefault ==
    [][(c_pc = "collections" /\ c_pc' = "done") => c_outcome' # "error"]_vars

\* ---------------------------------------------------- claims on sync runs

\* The run ended with outcome 'complete'.
Completed(w) == worker[w].pc = "done" /\ worker[w].outcome = "complete"

\* The second run was submitted after the first had ended.
InSequence == worker[2].pc = "done" /\ worker[2].after_first

\* The collections of the sink whose title is the name, letter case aside.
Titled(name) ==
    {k \in 1..Len(sink_collections) :
        Lower(sink_collections[k]) = Lower(name)}

\* The bucket names of the runs of the model (the second run has the
\* arguments of the first).
RunNames ==
    {worker[1].collections[i].name : i \in 1..Len(worker[1].collections)}

C6_OneCollectionPerName ==
    \A name \in RunNames : Cardinality(Titled(name)) <= 1

\* C7: when the pre-flight succeeded and every sink call of the run
\* succeeded, at completion a collection exists for every bucket, every
\* product of the partition has the name of its bucket as product_type, the
\* collections obtained are as many as the buckets, and success_count is the
\* number of products of the partition.
C7_AllCallsSucceed ==
    \A w \in Workers :
        (Completed(w) /\ worker[w].preflight = "200" /\ worker[w].all_ok)
            => LET rec == worker[w]
               IN  /\ \A i \in 1..Len(rec.collections) :
                         /\ Titled(rec.collections[i].name) # {}
                         /\ \A k \in 1..Len(rec.collections[i].ids) :
                               LET idx == rec.collections[i].ids[k]
                               IN  /\ idx \in 1..Len(rec.products)
                                   /\ Lower(sink_product_type[
                                          rec.products[idx]])
                                        = Lower(rec.collections[i].name)
                   /\ rec.collections_ok = Len(rec.collections)
                   /\ rec.success_count = SumLen(rec.collections)

\* C8: a pre-flight answered 403 ends the run with a permission error, and
\* a pre-flight answered with another status than 200, or that raises, ends
\* it with a connectivity error; in both cases the run issues no create
\* request and no product update.
C8_PreflightFailureStopsRun ==
    \A w \in Workers :
        LET rec == worker[w]
        IN  /\ rec.preflight = "403"
                => /\ rec.pc = "done" /\ rec.outcome = "error"
                   /\ ErrorClass(rec.message) = "permission"
                   /\ ~rec.wrote
            /\ rec.preflight \in {"500", "exception"}
                => /\ rec.pc = "done" /\ rec.outcome = "error"
                   /\ ErrorClass(rec.message) = "connectivity"
                   /\ ~rec.wrote

C8_Witness ==
    /\ worker[1].pc = "done" /\ worker[1].preflight = "403"
    /\ worker[2].pc = "done" /\ worker[2].preflight = "500"

\* C9: a create response that carries an errors field and no collection is
\* surfaced as a permission error, told apart from a transient failure: the
\* run that received it ends with an error of the permission class.
C9_PermissionErrorSurfaced ==
    \A w \in Workers :
        (worker[w].pc = "done" /\ worker[w].permission_seen)
            => /\ worker[w].outcome = "error"
               /\ ErrorClass(worker[w].message) = "permission"

\* C10 (as stated): a run whose pre-flight succeeded always ends with outcome
\* 'complete', its success_count the number of successful product updates
\* and between 0 and the total number of products.
C10_AlwaysComplete ==
    \A w \in Workers :
        (worker[w].pc = "done" /\ worker[w].preflight = "200")
            => /\ worker[w].outcome = "complete"
               /\ worker[w].success_count = worker[w].updates_ok
               /\ 0 <= worker[w].success_count
               /\ worker[w].success_count <= worker[w].total_products

\* C10 (amended): a run whose pre-flight succeeded ends with outcome
\* 'complete', whatever creation or update failed, its success_count the
\* number of successful product updates and between 0 and the total number
\* of products; except the streamed run of a session without classification
\* data, which ends with the error 'No classification data' and no write.
C10_CompleteUnlessNoData ==
    \A w \in Workers :
        LET rec == worker[w]
        IN  (rec.pc = "done" /\ rec.preflight = "200")
                => IF rec.mode = "stream" /\ rec.collections = <<>>
                   THEN /\ rec.outcome = "error"
                        /\ rec.message = "no_classification_data"
                        /\ ~rec.wrote
                   ELSE /\ rec.outcome = "complete"
                        /\ rec.success_count = rec.updates_ok
                        /\ 0 <= rec.success_count
                        /\ rec.success_count <= rec.total_products

C10_Witness ==
    /\ Completed(1)
    /\ worker[1].preflight = "200"
    /\ worker[1].permission_seen
    /\ worker[1].collections_ok < worker[1].total_collections
    /\ worker[1].success_count = 1
    /\ worker[1].total_products = 2

\* ------------------------------------------ claims on the sink functions

\* A call of a sink function of run w has just returned.
CallReturned(w) == worker[w].phase = "returned"

\* The attempts of the call that failed.
FailedAttempts(w) ==
    IF worker[w].result = "ok" THEN worker[w].attempt
    ELSE worker[w].attempt + 1

\* C11: a 429 answer takes nothing from the retry budget: a call of
\* create_or_get_smart_collection or update_product_metadata never fails on
\* 429 answers alone, and a call that fails with its three attempts used
\* spent none of them on a 429.
C11_RateLimitOutsideBudget ==
    \A w \in Workers :
        (CallReturned(w) /\ worker[w].result = "failed")
            => /\ worker[w].n429 < FailedAttempts(w)
               /\ FailedAttempts(w) = max_retries => worker[w].n429 = 0

\* C12: when the sink answers one request of a call with 429 and every later
\* one with success, the next request follows the 429 by at least the
\* seconds of Retry-After (2 without the header), and the call returns
\* success.
C12_WaitsRetryAfterThenSucceeds ==
    \A w \in Workers :
        /\ ~worker[w].short_wait
        /\ (CallReturned(w) /\ worker[w].n429 = 1 /\ FailedAttempts(w) = 1)
              => worker[w].result = "ok"

\* C13: whatever the sink answers, a call of create_or_get_smart_collection
\* or update_product_metadata makes at most three attempts and then returns
\* None or False; no exception leaves the call, so no run ends on one.
C13_BoundedAttemptsNoException ==
    \A w \in Workers :
        /\ worker[w].attempt < max_retries
        /\ CallReturned(w) => worker[w].result \in {"ok", "failed"}
        /\ worker[w].message # "permission_error"
        /\ (worker[w].pc = "done" /\ worker[w].preflight = "200")
              => worker[w].outcome = "complete"
                    \/ worker[w].message = "no_classification_data"

C13_Witness ==
    /\ CallReturned(1)
    /\ worker[1].pc = "collections"
    /\ worker[1].result = "failed"
    /\ worker[1].permission_seen
    /\ FailedAttempts(1) = max_retries

\* ------------------------------------------ claims on the desktop variant

C17_ProgressNeverDecreases ==
    (/\ last_update.task_id # "none"
     /\ task_thread[last_update.task_id].kind = "classify"
     /\ last_update.before.status = "running"
     /\ classification_tasks[last_update.task_id].status = "running")
        => last_update.before.progress
              <= classification_tasks[last_update.task_id].progress

\* The record's status is terminal.
Terminal(record) == record.status \in {"complete", "error"}

\* C16: from the moment classify-start or update-shopify-start has returned
\* a task id, a status query for that id finds a record: no query of a
\* given id is answered 'Task not found'.
C16_RecordExistsFromSubmission == status_reply # "Task not found"

\* C18: an update never replaces a record whose status is complete or error,
\* and every update of a task id's record is made by the thread started for
\* that task id.
C18_TerminalRecordsAreFinal ==
    last_update.task_id # "none"
        => /\ ~Terminal(last_update.before)
           /\ last_update.by = last_update.task_id
           /\ task_thread[last_update.by].pc \notin {"none", "start"}

C18_Witness ==
    /\ Terminal(classification_tasks["t1"])
    /\ Terminal(classification_tasks["t2"])
    /\ classification_tasks["t1"].status = "error"
    /\ last_update.task_id = "t2"
    /\ last_update.before = [status |-> "running", progress |-> 40]
    /\ status_reply = "found"

\* C19: every background classification or sync task that was started
\* reaches the status complete or error.
C19_StartedTaskTerminates ==
    \A t \in TaskIds :
        (task_thread[t].pc = "start") ~> Terminal(classification_tasks[t])

C19_Witness ==
    /\ task_thread["t1"].pc = "done"
    /\ task_thread["t2"].pc = "done"
    /\ classification_tasks["t1"].status = "complete"
    /\ classification_tasks["t2"].status = "complete"

\* C20: every task record is removed from the registry in the end: a task
\* id that has a record comes to have none.
C20_RecordRemovedInTheEnd ==
    \A t \in TaskIds :
        (classification_tasks[t] # NoTask) ~> (classification_tasks[t] = NoTask)

\* ------------------------------------------- claims on the session store

\* C21: the sweep deletes exactly the sessions created more than 86400 s
\* before it: no step deletes a session that is at most 86400 s old, and
\* when a sweep has run no session older than that is left in the store.
C21_SweepRemovesExactlyExpired ==
    [][/\ \A sid \in SessionIds :
             (data_store[sid].present
                 /\ clock - data_store[sid].created_at <= TTL)
             => data_store'[sid].present
       /\ (\E p \in Threads : /\ running[p].todo # <<>>
                              /\ Head(running[p].todo) = "sweep"
                              /\ running'[p].swept)
          => \A sid \in SessionIds :
                data_store'[sid].present
                => clock' - data_store'[sid].created_at <= TTL]_vars

\* A sweep has deleted a session and left one that is exactly 86400 s old.
C21_Witness ==
    /\ \E p \in Threads : running[p].swept
    /\ swept # {}
    /\ \E sid \in SessionIds :
          data_store[sid].present /\ clock - data_store[sid].created_at = TTL

\* C22: a thread about to read or write data_store holds store_lock, and a
\* thread about to make a network call or to sleep holds neither lock.
C22_StoreAccessUnderLock ==
    \A p \in Threads :
       running[p].todo # <<>> =>
          LET step == Head(running[p].todo)
          IN  /\ step \in {"sweep", "write", "read"} => store_lock = p
              /\ step \in {"request", "sleep"} =>
                    store_lock # p /\ tasks_lock # p

\* A handler reads the store under the lock while the worker waits for it.
C22_Witness ==
    /\ running["handler"].todo # <<>>
    /\ Head(running["handler"].todo) = "read"
    /\ running["worker"].todo # <<>>
    /\ Head(running["worker"].todo) = "acquire store_lock"

\* ------------------------------------------------------ claims on ingestion

\* The tokens of a tags string: its longest stretches without a comma.
CommaTokens(text) ==
    LET whole(a, b) == /\ a <= b + 1
                       /\ a = 1 \/ text[a - 1] = ","
                       /\ b = Len(text) \/ text[b + 1] = ","
                       /\ \A k \in a..b : text[k] # ","
    IN  {SubSeq(text, a, b) :
            <<a, b>> \in {ab \in (1..(Len(text) + 1)) \X (0..Len(text)) :
                             whole(ab[1], ab[2])}}

\* C23: a product is included iff a token of its tags field, trimmed and
\* lower-cased, equals the trimmed and lower-cased filter; a product with an
\* empty or missing tags field is never included.
C23_ExactTagTokenMatch ==
    tagcheck.pc = "done" =>
       /\ tagcheck.included <=>
             /\ tagcheck.tags.has
             /\ \E token \in CommaTokens(tagcheck.tags.text) :
                   LowerStr(Strip(token)) = LowerStr(Strip(tagcheck.input))
       /\ (~tagcheck.tags.has \/ tagcheck.tags.text = <<>>)
             => ~tagcheck.included

\* The first page of a source that is empty or carries no next link.
StopPage(source) ==
    IF source.pages = 0 THEN 1
    ELSE IF source.last_next THEN source.pages + 1
    ELSE source.pages

\* The matching products of pages 1..n in page order.
ExpectedUpTo(source, tag, n) ==
    Concat([i \in 1..n |-> Matched(PageProducts(source, i), tag)])

\* Ingestion from a source with a last page has answered with success.
Ingested ==
    /\ ingest.pc = "done"
    /\ ingest.outcome = "success"
    /\ ~ingest.source.endless

\* C24 as stated: from a source of k pages followed by an empty page,
\* ingestion asks for the pages in order, asks for no page after the first
\* empty or linkless one, and returns the matching products of all k pages in
\* page order.
C24_StopsAtFirstEmptyPage ==
    Ingested =>
       /\ ingest.in_order
       /\ ingest.requests <= StopPage(ingest.source)
       /\ ingest.all_products =
             ExpectedUpTo(ingest.source, ingest.tag, ingest.source.pages)

\* C24 amended: the same, for the pages up to max_pages; of a longer source
\* the first max_pages pages are asked for and returned.
C24_StopsAtFirstEmptyPageOrCap ==
    Ingested =>
       /\ ingest.in_order
       /\ ingest.requests = Min(StopPage(ingest.source), max_pages)
       /\ ingest.all_products =
             ExpectedUpTo(ingest.source, ingest.tag,
                          Min(ingest.source.pages, max_pages))

\* Every product of a short source matched, and the empty page after its
\* last page was asked for.
C24_Witness ==
    /\ Ingested
    /\ ingest.source.pages = MaxPages
    /\ ingest.requests = MaxPages + 1
    /\ Len(ingest.all_products) = 2 * MaxPages

\* C25: ingestion sends at most max_pages requests, and when the cap ends
\* the loop the answer is a success holding the matches of the pages read.
C25_StopsAtPageCap ==
    /\ ingest.requests <= max_pages
    /\ (ingest.pc = "done" /\ ingest.page_count = max_pages) =>
          /\ ingest.outcome = "success"
          /\ ingest.all_products =
                ExpectedUpTo(ingest.source, ingest.tag, max_pages)

\* An endless source: the loop was ended by the cap.
C25_Witness ==
    /\ ingest.pc = "done"
    /\ ingest.source.endless
    /\ ingest.page_count = max_pages
    /\ ingest.requests = max_pages
    /\ ingest.all_products # <<>>

\* -------------------------------------------- claims on the deduplication

\* How often the index x occurs in the buckets of d.
Occurrences(d, x) ==
    Cardinality({ik \in UNION {{<<i, k>> : k \in 1..Len(d[i].ids)} :
                                  i \in 1..Len(d)} :
                    d[ik[1]].ids[ik[2]] = x})

\* The name of the first bucket of d, in iteration order, that holds x.
FirstBucket(d, x) ==
    d[CHOOSE i \in 1..Len(d) :
         /\ x \in Range(d[i].ids)
         /\ \A j \in 1..(i - 1) : x \notin Range(d[j].ids)].name

\* C26: after the pass every index of the given buckets occurs exactly once,
\* in the first bucket that held it; no bucket is empty; and the sync runs
\* count as duplicates the occurrences less the distinct indices.
C26_DedupKeepsFirstOccurrence ==
    dedup.pc = "done" =>
       /\ DictIndices(dedup.clean) = DictIndices(dedup.input)
       /\ \A x \in DictIndices(dedup.input) :
             /\ Occurrences(dedup.clean, x) = 1
             /\ FirstBucket(dedup.clean, x) = FirstBucket(dedup.input, x)
       /\ \A i \in 1..Len(dedup.clean) : dedup.clean[i].ids # <<>>
       /\ dedup.variant = "sync" =>
             dedup.duplicates_removed =
                SumLen(dedup.input) - Cardinality(DictIndices(dedup.input))

\* An index twice in the first bucket and once in the second, which the pass
\* leaves empty and drops.
C26_Witness ==
    /\ dedup.pc = "done"
    /\ dedup.variant = "sync"
    /\ \A i \in 1..Len(dedup.input) : dedup.input[i].ids # <<>>
    /\ dedup.duplicates_removed = 2
    /\ Len(dedup.clean) = 2

\* ------------------------------------- claims on the partition and the sync

\* C27: the partition a successful classification run stores and the one it
\* returns hold no empty bucket, and every bucket name is a name of the
\* run's taxonomy.
C27_NoEmptyBucketTaxonomyNames ==
    c_outcome = "success" =>
       /\ \A i \in 1..Len(store_classified) :
             /\ store_classified[i].ids # <<>>
             /\ store_classified[i].name \in Range(suggested_collections)
       /\ \A i \in 1..Len(c_result.collections) :
             /\ c_result.collections[i].ids # <<>>
             /\ c_result.collections[i].name \in Range(suggested_collections)

\* A stream run over a taxonomy of two names put every product in one bucket.
C27_Witness ==
    /\ c_outcome = "success"
    /\ c_mode = "stream"
    /\ Len(collections_dict) = 2
    /\ Len(store_classified) = 1
    /\ Len(c_result.collections) = 1

\* The indices of a run's deduplicated buckets that lie in 1..len(products).
ValidIndices(rec) ==
    {x \in DictIndices(rec.clean) : 1 <= x /\ x <= Len(rec.products)}

\* C28: an index outside 1..len(products) is discarded by a sync run: the
\* run's update calls are those of the valid indices, success_count counts
\* none but these, and the reported total is their number.
C28_OutOfRangeIndexDiscarded ==
    \A w \in Workers :
       (worker[w].pc = "done" /\ worker[w].outcome = "complete") =>
          /\ Len(worker[w].plan) = Cardinality(ValidIndices(worker[w]))
          /\ \A k \in 1..Len(worker[w].plan) :
                worker[w].plan[k].idx \in ValidIndices(worker[w])
          /\ worker[w].success_count <= Cardinality(ValidIndices(worker[w]))
          /\ worker[w].total_products = Cardinality(ValidIndices(worker[w]))

\* C29: when update_product_metadata returns True, its last PUT carried the
\* product's id, the collection name as tags and the collection name as
\* product_type, and no other field.
C29_UpdateSendsNameAsTagsAndType ==
    \A w \in Workers :
       (worker[w].pc = "products" /\ worker[w].phase = "returned"
           /\ worker[w].result = "ok") =>
          LET item == worker[w].plan[worker[w].item]
          IN  worker[w].put =
                 [id |-> worker[w].products[item.idx], tags |-> item.name,
                  product_type |-> item.name]

\* An update returned True on its second attempt.
C29_Witness ==
    /\ worker[1].pc = "products"
    /\ worker[1].phase = "returned"
    /\ worker[1].result = "ok"
    /\ worker[1].attempt = 1
    /\ worker[1].put.tags = "b"

\* C30: a product assigned by fallback in the loop goes to a bucket that is
\* as large as any at that moment, larger than every bucket before it; when
\* all buckets are empty this is the first name of the taxonomy.
C30_FallbackIsFirstLargest ==
    [][(/\ c_pc = "classify"
        /\ c_todo' # c_todo
        /\ c_last'.kind \in {"nonmember", "exception"})
       => \E i \in 1..Len(collections_dict) :
             /\ collections_dict'[i].ids =
                   Append(collections_dict[i].ids, c_last'.idx)
             /\ \A j \in 1..Len(collections_dict) :
                   /\ j # i => collections_dict'[j] = collections_dict[j]
                   /\ Len(collections_dict[j].ids)
                         <= Len(collections_dict[i].ids)
                   /\ j < i => Len(collections_dict[j].ids)
                                  < Len(collections_dict[i].ids)
             /\ (\A j \in 1..Len(collections_dict) :
                    collections_dict[j].ids = <<>>)
                => collections_dict[i].name = suggested_collections[1]]_vars

\* The second bucket held one product and the first none when the fallback
\* put the second product there.
C30_Witness ==
    /\ c_last = [idx |-> 2, kind |-> "nonmember"]
    /\ Len(collections_dict) >= 2
    /\ collections_dict[1].ids = <<>>
    /\ collections_dict[2].ids = <<1, 2>>



\* ------------------------------------------------ claims on the progress

\* C31: every progress value written lies in 0..100, and 100 is written
\* only together with the status complete; while a background sync task is
\* running, the progress an update with status running writes is never less
\* than the progress of the running record it replaces.
C31_ProgressInRangeAndSyncMonotone ==
    /\ \A t \in TaskIds :
          /\ classification_tasks[t].progress \in 0..100
          /\ classification_tasks[t].progress = 100
                => classification_tasks[t].status = "complete"
    /\ (/\ last_update.task_id # "none"
        /\ task_thread[last_update.task_id].kind = "update"
        /\ last_update.before.status = "running"
        /\ classification_tasks[last_update.task_id].status = "running")
           => last_update.before.progress
                 <= classification_tasks[last_update.task_id].progress

C31_Witness ==
    /\ task_thread["t2"].pc = "update"
    /\ task_thread["t2"].item = 20
    /\ TotalProducts(task_thread["t2"]) = 22
    /\ last_update.before = [status |-> "running", progress |-> 65]
    /\ classification_tasks["t2"] = [status |-> "running", progress |-> 90]


\* --------------------------------------------- claims on the sink calls

\* The requests of a call.
IsRequest(event) == event.op \in {"GET", "POST", "PUT"}

\* C32: in both sink functions, after the k-th attempt (k = 1, 2) failed by
\* timeout or network failure the function sleeps base * k seconds (base 2
\* for collections, 1 for products) and then starts attempt k + 1; after
\* such a failure of the third attempt it returns without a sleep.
C32_RetryWaitGrowsWithAttempt ==
    \A i \in 1..Len(sink_call.trace) :
        LET event == sink_call.trace[i]
            k     == event.attempt + 1
            base  == IF sink_call.fn = "create_or_get_smart_collection"
                     THEN 2 ELSE 1
        IN  (IsRequest(event) /\ event.answer \in {"timeout", "network"})
                => IF k < 3
                   THEN /\ i < Len(sink_call.trace)
                        /\ sink_call.trace[i + 1].op = "sleep"
                        /\ sink_call.trace[i + 1].half_seconds = 2 * base * k
                        /\ i + 2 <= Len(sink_call.trace)
                              => sink_call.trace[i + 2].attempt = k
                        /\ i + 1 = Len(sink_call.trace)
                              => sink_call.attempt = k
                   ELSE /\ i = Len(sink_call.trace)
                        /\ sink_call.phase = "returned"
                        /\ sink_call.value = "failed"

C32_Witness ==
    /\ sink_call.fn = "create_or_get_smart_collection"
    /\ sink_call.phase = "returned"
    /\ Len(sink_call.trace) = 7
    /\ sink_call.trace[1] = RequestEvent("GET", 0, "timeout")
    /\ sink_call.trace[2] = SleepEvent("retry", 0, 4)
    /\ sink_call.trace[5] = RequestEvent("POST", 1, "network")
    /\ sink_call.trace[6] = SleepEvent("retry", 1, 8)
    /\ sink_call.trace[7] = RequestEvent("GET", 2, "timeout")

\* C33: every write request of a sink call (the POST that creates a
\* collection, the PUT of a product) directly follows, in the same attempt,
\* a sleep of half a second or more: no request lies between them.
C33_WriteFollowsPause ==
    \A i \in 1..Len(sink_call.trace) :
        sink_call.trace[i].op \in {"POST", "PUT"}
            => /\ i > 1
               /\ sink_call.trace[i - 1].op = "sleep"
               /\ sink_call.trace[i - 1].half_seconds >= 1
               /\ sink_call.trace[i - 1].attempt = sink_call.trace[i].attempt

C33_Witness ==
    /\ sink_call.fn = "update_product_metadata"
    /\ sink_call.phase = "returned"
    /\ sink_call.value = "ok"
    /\ Len(sink_call.trace) = 9
    /\ sink_call.trace[4].op = "PUT"
    /\ sink_call.trace[4].answer = "429"
    /\ sink_call.trace[9] = RequestEvent("PUT", 1, "ok")


\* --------------------------------------------- claims on the push streams

\* The places of the terminal events among the events of the stream.
TerminalEvents(events) ==
    {i \in 1..Len(events) : events[i] \in {"complete", "error"}}

\* C34: a push stream emits at most one event of type complete or error and
\* nothing after it, a stream whose generator has run to its end has emitted
\* exactly one, and a complete event has a start event before it.
C34_OneTerminalEventAndLast ==
    LET events == stream.events
    IN  /\ Cardinality(TerminalEvents(events)) <= 1
        /\ \A i \in TerminalEvents(events) : i = Len(events)
        /\ stream.pc = "done" => Cardinality(TerminalEvents(events)) = 1
        /\ \A i \in 1..Len(events) :
              events[i] = "complete"
                 => \E j \in 1..(i - 1) : events[j] = "start"

C34_Witness ==
    /\ stream.kind = "sync"
    /\ stream.pc = "done"
    /\ stream.events[1] = "info"
    /\ stream.events[2] = "start"
    /\ stream.events[Len(stream.events)] = "complete"
    /\ \E i \in 1..Len(stream.events) : stream.events[i] = "product_error"
    /\ \E i \in 1..Len(stream.events) : stream.events[i] = "collection_error"


\* ------------------------------------- claims on the fetch-products request

\* C35: a fetch-products request that fails leaves the session's stored
\* values as they were when it came in: shop_url, access_token, products and
\* the classified partition.
C35_FailedFetchLeavesSessionUnchanged ==
    fetch.outcome = "failed" => fetch.session = fetch.before


\* ------------------------------------------ claims on running the pipeline again

\* C36: after a sync run in which every product update succeeded, the fetch
\* with the same tag returns the same set of product ids as the fetch that
\* preceded the sync.
C36_RefetchReturnsSameProducts ==
    (rerun.pc = "done" /\ rerun.plan # <<>>)
        => Range(rerun.refetched) = Range(rerun.products)


\* ------------------------------------------------ claims on the status poll

\* C37: the status, progress, message and data of a poll answer are the
\* arguments of one call of update_task_progress, whatever the worker does
\* while the handler builds the answer.
C37_PollAnswerIsOneUpdate ==
    poll.pc = "replied"
        => \E n \in 1..Len(WorkerCalls(poll.kind)) :
              poll.reply = WorkerCalls(poll.kind)[n]


\* ------------------------------------------------------ claims on the locks

\* The next step of thread p is the acquisition of a lock.
Requests(p) ==
    /\ running[p].todo # <<>>
    /\ Head(running[p].todo) \in {"acquire store_lock", "acquire tasks_lock"}

\* The holder of the lock thread p is about to acquire ("free" when nobody
\* holds it).
HolderOfRequested(p) ==
    IF Head(running[p].todo) = "acquire store_lock" THEN store_lock
    ELSE tasks_lock

\* C38: a thread that is about to acquire store_lock or tasks_lock holds
\* neither of them; and no thread waits for a lock whose holder waits for a
\* lock too, so the threads never deadlock on the two locks.
C38_NoNestedLockNoDeadlock ==
    \A p \in Threads :
        Requests(p)
            => /\ store_lock # p
               /\ tasks_lock # p
               /\ HolderOfRequested(p) # "free"
                     => ~Requests(HolderOfRequested(p))

\* The handler is in store_data after its sweep and waits for store_lock,
\* which the worker holds for its write.
C38_Witness ==
    /\ running["handler"].todo = WithStoreLock("write")
    /\ store_lock = "worker"
    /\ running["worker"].todo # <<>>
    /\ Head(running["worker"].todo) = "write"

====
